---------------------------- MODULE Spec2Model ----------------------------
(* A model of the D1 data-access layer of twenty-server: the query builder  *)
(* (graphql/resolvers/d1-query-builder.ts), the keyword search resolver,    *)
(* the workspace scoping utility and the D1 driver adapter.                 *)
(*                                                                          *)
(* Encoding of SQL values.  Identifiers (UUID strings) and timestamps (ISO  *)
(* strings of fixed width) are compared by the engine as text; both are     *)
(* modelled by integers with the same order.  Text is a sequence of         *)
(* one-character strings.  SQL NULL is NullTime in a timestamp column and   *)
(* NullText in a text column.                                               *)
EXTENDS Integers, Sequences, FiniteSets, TLC

VARIABLES
    db,        \* the tables of the D1 database: table name -> set of rows
    now,       \* the wall clock read by new Date()
    removed,   \* creation numbers of the rows hard delete has removed
    born,      \* number of rows stored so far; born + 1 is the next generated id
    ret,       \* the last call: its operation, arguments and return value
    trav,      \* a client walking the pages of one read-many query
    tx,        \* one D1TransactionBuilder and the batch calls the engine received
    cell,      \* one column value on its way through a value transformer
    conc       \* calls in progress whose statements interleave

vars == <<db, now, removed, born, ret, trav, tx, cell, conc>>

----------------------------------------------------------------------------
(* Bounds of the model *)

MaxTime == 2     \* the clock runs from 1 to MaxTime
MaxBorn == 2     \* rows created in one behaviour
MaxSmall == 4    \* the pagination specification: tables of 0..MaxSmall rows
MaxOver == 2     \*   and of DefaultPageSize - 1 .. DefaultPageSize + MaxOver rows
MaxPage == 2     \* page sizes 0..MaxPage
MaxSeed == 3     \* the search specification: up to MaxSeed rows in each table
MaxOps == 4      \* the adapter specification: calls made on one batch builder
MaxInstant == 1  \* the transformer specification: instants 0..MaxInstant
MaxAlts == 2     \* the scoping specification: alternatives of one where array
MaxRows == 2     \* the concurrency specifications: rows 1..MaxRows seeded

Tenants == {"T1", "T2"}
Tables == {"opportunity"}                  \* the table the record calls address
StoredTables == {"company", "opportunity"}  \* the tables of the database

NullTime == 0
NullText == <<"NULL">>

TimeCols == {"createdAt", "updatedAt", "deletedAt"}
TextCols == {"name", "domainName"}

----------------------------------------------------------------------------
(* Text: case folding, comparison and the LIKE operator of SQLite *)

Lower(c) == IF c = "A" THEN "a" ELSE IF c = "B" THEN "b" ELSE c

RECURSIVE LikeMatch(_, _)
LikeMatch(p, s) ==
    IF p = <<>> THEN s = <<>>
    ELSE IF Head(p) = "%"
         THEN \E k \in 0..Len(s) : LikeMatch(Tail(p), SubSeq(s, k + 1, Len(s)))
         ELSE /\ s # <<>>
              /\ (Head(p) = "_" \/ Lower(Head(p)) = Lower(Head(s)))
              /\ LikeMatch(Tail(p), Tail(s))

IsNull(field, v) ==
    IF field \in TimeCols THEN v = NullTime
    ELSE IF field \in TextCols THEN v = NullText
    ELSE FALSE


----------------------------------------------------------------------------
(* Filter conditions (resolvers/types FilterCondition).  A filter is the    *)
(* sequence of its entries in insertion order.  An entry is a record        *)
(*   [field, t, x, eq, neq, in, like]                                       *)
(* where t is "null", "lit" (x is the literal) or "ops"; an operator that   *)
(* is present is a one-element sequence holding its operand, an absent one  *)
(* is the empty sequence.                                                   *)

Absent == <<>>
FNull(f) == [field |-> f, t |-> "null", x |-> Absent, eq |-> Absent,
             neq |-> Absent, in |-> Absent, like |-> Absent]
FLit(f, v) == [FNull(f) EXCEPT !.t = "lit", !.x = <<v>>]
FEq(f, v) == [FNull(f) EXCEPT !.t = "ops", !.eq = <<v>>]
FNeq(f, v) == [FNull(f) EXCEPT !.t = "ops", !.neq = <<v>>]
FIn(f, vs) == [FNull(f) EXCEPT !.t = "ops", !.in = <<vs>>]
FLike(f, v) == [FNull(f) EXCEPT !.t = "ops", !.like = <<v>>]

(* A condition of a WHERE clause: the column, the operator and the number   *)
(* of "?" placeholders its text holds.                                      *)
Cond(f, o, k) == [field |-> f, op |-> o, n |-> k]

EntryConds(e) ==
    IF e.t = "null" THEN <<Cond(e.field, "ISNULL", 0)>>
    ELSE IF e.t = "ops"
    THEN (IF e.eq # Absent THEN <<Cond(e.field, "=", 1)>> ELSE <<>>)
         \o (IF e.neq # Absent THEN <<Cond(e.field, "!=", 1)>> ELSE <<>>)
         \o (IF e.in # Absent THEN <<Cond(e.field, "IN", Len(e.in[1]))>> ELSE <<>>)
         \o (IF e.like # Absent THEN <<Cond(e.field, "LIKE", 1)>> ELSE <<>>)
    ELSE <<Cond(e.field, "=", 1)>>

EntryParams(e) ==
    IF e.t = "null" THEN <<>>
    ELSE IF e.t = "ops"
    THEN (IF e.eq # Absent THEN <<e.eq[1]>> ELSE <<>>)
         \o (IF e.neq # Absent THEN <<e.neq[1]>> ELSE <<>>)
         \o (IF e.in # Absent THEN e.in[1] ELSE <<>>)
         \o (IF e.like # Absent THEN <<(<<"%">> \o e.like[1]) \o <<"%">>>> ELSE <<>>)
    ELSE <<e.x[1]>>

RECURSIVE FilterConds(_)
FilterConds(filter) ==
    IF filter = <<>> THEN <<>>
    ELSE EntryConds(Head(filter)) \o FilterConds(Tail(filter))

RECURSIVE FilterParams(_)
FilterParams(filter) ==
    IF filter = <<>> THEN <<>>
    ELSE EntryParams(Head(filter)) \o FilterParams(Tail(filter))

(* buildWhereClause: the tenant predicate, the soft-delete predicate, then  *)
(* the caller's conditions, all joined by AND.                              *)
(* buildWhereClause without the tenant predicate *)
buildWhereClause_NoTenant(filter, workspaceId) ==
    [conds |-> <<Cond("deletedAt", "ISNULL", 0)>> \o FilterConds(filter),
     params |-> FilterParams(filter)]

(* buildWhereClause without the soft-delete predicate *)
buildWhereClause_WithDeleted(filter, workspaceId) ==
    [conds |-> <<Cond("workspaceId", "=", 1)>> \o FilterConds(filter),
     params |-> <<workspaceId>> \o FilterParams(filter)]

(* buildWhereClause with the tenant predicate pushed after the caller's *)
buildWhereClause_TenantLast(filter, workspaceId) ==
    [conds |-> (<<Cond("deletedAt", "ISNULL", 0)>> \o FilterConds(filter))
                 \o <<Cond("workspaceId", "=", 1)>>,
     params |-> FilterParams(filter) \o <<workspaceId>>]

buildWhereClause(filter, workspaceId) ==
    [conds |-> <<Cond("workspaceId", "=", 1), Cond("deletedAt", "ISNULL", 0)>>
                 \o FilterConds(filter),
     params |-> <<workspaceId>> \o FilterParams(filter)]

----------------------------------------------------------------------------
(* The storage engine: evaluation of a conjunction of conditions on a row.  *)
(* A comparison with NULL on either side is not true.                       *)

EvalCond(r, c, args) ==
    LET v == r[c.field] IN
    IF c.op = "ISNULL" THEN IsNull(c.field, v)
    ELSE IF IsNull(c.field, v) THEN FALSE
    ELSE IF c.op = "=" THEN ~IsNull(c.field, args[1]) /\ v = args[1]
    ELSE IF c.op = "!=" THEN ~IsNull(c.field, args[1]) /\ v # args[1]
    ELSE IF c.op = "IN"
         THEN \E i \in 1..Len(args) : ~IsNull(c.field, args[i]) /\ v = args[i]
    ELSE IF c.op = "LIKE" THEN ~IsNull(c.field, args[1]) /\ LikeMatch(args[1], v)
    ELSE FALSE

RECURSIVE Placeholders(_)
Placeholders(conds) ==
    IF conds = <<>> THEN 0 ELSE Head(conds).n + Placeholders(Tail(conds))

(* The i-th bound value belongs to the i-th placeholder. *)
RECURSIVE EvalAnd(_, _, _)
EvalAnd(r, conds, params) ==
    IF conds = <<>> THEN TRUE
    ELSE LET c == Head(conds) IN
         /\ EvalCond(r, c, SubSeq(params, 1, c.n))
         /\ EvalAnd(r, Tail(conds), SubSeq(params, c.n + 1, Len(params)))

(* D1 rejects a statement that is bound to a number of values other than    *)
(* the number of its placeholders.                                          *)
BindOk(conds, params) == Placeholders(conds) = Len(params)

Matching(rows, conds, params) == {r \in rows : EvalAnd(r, conds, params)}

----------------------------------------------------------------------------
(* Ordering.  An order specification is a sequence of                       *)
(* [field, direction, nulls]; an empty string stands for an absent          *)
(* direction or nulls placement.  buildOrderByClause yields the terms of    *)
(* the ORDER BY clause, each with the NULLS placement it spells out (the    *)
(* default clause spells none: SQLite then treats NULL as the smallest      *)
(* value, which is NULLS LAST under DESC and NULLS FIRST under ASC).        *)

DefaultPageSize == 50

Term(f, d, n) == [field |-> f, direction |-> d, nulls |-> n]

OrderTerm(spec) ==
    LET direction == IF spec.direction = "" THEN "ASC" ELSE spec.direction
        nullsHandling == IF spec.nulls # "" THEN spec.nulls
                         ELSE IF direction = "ASC" THEN "FIRST" ELSE "LAST"
    IN Term(spec.field, direction, nullsHandling)

(* buildOrderByClause without the final sort on id *)
buildOrderByClause_NoTiebreak(orderBy) ==
    IF orderBy = <<>>
    THEN <<Term("createdAt", "DESC", "LAST"), Term("id", "ASC", "FIRST")>>
    ELSE [i \in 1..Len(orderBy) |-> OrderTerm(orderBy[i])]

buildOrderByClause(orderBy) ==
    IF orderBy = <<>>
    THEN <<Term("createdAt", "DESC", "LAST"), Term("id", "ASC", "FIRST")>>
    ELSE [i \in 1..Len(orderBy) |-> OrderTerm(orderBy[i])]
         \o <<Term("id", "ASC", "FIRST")>>

CharCode(c) ==
    IF c = "%" THEN 37 ELSE IF c = "A" THEN 65 ELSE IF c = "B" THEN 66
    ELSE IF c = "\\" THEN 92 ELSE IF c = "_" THEN 95
    ELSE IF c = "a" THEN 97 ELSE IF c = "b" THEN 98 ELSE 120

(* -1, 0 or 1: the BINARY collation of two texts *)
RECURSIVE TextCmp(_, _)
TextCmp(s, t) ==
    IF s = <<>> THEN (IF t = <<>> THEN 0 ELSE -1)
    ELSE IF t = <<>> THEN 1
    ELSE IF CharCode(Head(s)) < CharCode(Head(t)) THEN -1
    ELSE IF CharCode(Head(s)) > CharCode(Head(t)) THEN 1
    ELSE TextCmp(Tail(s), Tail(t))

ValueCmp(field, a, b) ==
    IF field \in TextCols THEN TextCmp(a, b)
    ELSE IF a < b THEN -1 ELSE IF a > b THEN 1 ELSE 0

(* The place of row r relative to row o under one term of the clause *)
TermCmp(r, o, t) ==
    LET a == r[t.field]
        b == o[t.field]
        an == IsNull(t.field, a)
        bn == IsNull(t.field, b)
    IN IF an /\ bn THEN 0
       ELSE IF an THEN (IF t.nulls = "FIRST" THEN -1 ELSE 1)
       ELSE IF bn THEN (IF t.nulls = "FIRST" THEN 1 ELSE -1)
       ELSE IF t.direction = "DESC" THEN ValueCmp(t.field, b, a)
       ELSE ValueCmp(t.field, a, b)

RECURSIVE RowCmp(_, _, _)
RowCmp(r, o, terms) ==
    IF terms = <<>> THEN 0
    ELSE LET c == TermCmp(r, o, Head(terms)) IN
         IF c # 0 THEN c ELSE RowCmp(r, o, Tail(terms))

(* The rows in the order of the clause.  The clause ends with the id,      *)
(* which is unique in a table, so no two rows of a table tie.               *)
RECURSIVE SortRows(_, _)
SortRows(rows, terms) ==
    IF rows = {} THEN <<>>
    ELSE LET p == CHOOSE r \in rows : TRUE
         IN SortRows({o \in rows \ {p} : RowCmp(o, p, terms) < 0}, terms)
            \o <<p>>
            \o SortRows({o \in rows \ {p} : RowCmp(o, p, terms) >= 0}, terms)

Take(seq, k) == SubSeq(seq, 1, IF k < Len(seq) THEN k ELSE Len(seq))

Reverse(seq) == [i \in 1..Len(seq) |-> seq[Len(seq) + 1 - i]]

----------------------------------------------------------------------------
(* Pagination arguments: [first, last, after, before], each an optional     *)
(* value (Absent or a one-element sequence).                                *)

Pg(f, l, a, b) == [first |-> f, last |-> l, after |-> a, before |-> b]

buildPaginationClause(pagination) ==
    LET limit == IF pagination.first # Absent THEN pagination.first[1]
                 ELSE IF pagination.last # Absent THEN pagination.last[1]
                 ELSE DefaultPageSize
    IN [sqlLimit |-> limit + 1, limit |-> limit]

(* Cursors.  A cursor string is modelled by what it decodes to:             *)
(*   "idobj"    base64 of the JSON text {"id": <id>}                        *)
(*   "emptyobj" base64 of the JSON text {}                                  *)
(*   "jsonnull" base64 of the JSON text null                                *)
(*   "notjson"  base64 of a text that is not JSON                           *)
(*   "notb64"   a string that is not base64                                 *)
(*   "empty"    the empty string                                            *)
Cursor(k, i) == [kind |-> k, id |-> i]

encodeCursor(id) == Cursor("idobj", id)

(* decodeCursor: the parsed value, or null when atob or JSON.parse throws.  *)
(* isNull: the result is null; hasId: the result carries an id.             *)
decodeCursor(cursor) ==
    IF cursor.kind = "idobj"
    THEN [isNull |-> FALSE, hasId |-> TRUE, id |-> cursor.id]
    ELSE IF cursor.kind = "emptyobj"
    THEN [isNull |-> FALSE, hasId |-> FALSE, id |-> cursor.id]
    ELSE [isNull |-> TRUE, hasId |-> FALSE, id |-> cursor.id]

(* JavaScript truthiness of an optional number and of an optional string *)
TruthyNum(opt) == opt # Absent /\ opt[1] # 0
TruthyStr(opt) == opt # Absent /\ opt[1].kind # "empty"

(* buildPageInfo without the removal of the extra row *)
buildPageInfo_Untrimmed(records, limit, args) ==
    [records |-> records,
     hasNextPage |-> Len(records) > limit,
     hasPreviousPage |-> FALSE,
     startCursor |-> Absent,
     endCursor |-> Absent]

buildPageInfo(records, limit, args) ==
    LET hasExtraRecord == Len(records) > limit
        sliced == IF hasExtraRecord THEN Take(records, limit) ELSE records
        trimmedRecords == IF TruthyNum(args.last) /\ ~TruthyNum(args.first)
                          THEN Reverse(sliced) ELSE sliced
    IN [records |-> trimmedRecords,
        hasNextPage |-> IF TruthyNum(args.first) THEN hasExtraRecord
                        ELSE TruthyStr(args.before),
        hasPreviousPage |-> IF TruthyNum(args.last) THEN hasExtraRecord
                            ELSE TruthyStr(args.after),
        startCursor |-> IF Len(trimmedRecords) > 0
                        THEN <<encodeCursor(trimmedRecords[1].id)>> ELSE Absent,
        endCursor |-> IF Len(trimmedRecords) > 0
                      THEN <<encodeCursor(trimmedRecords[Len(trimmedRecords)].id)>>
                      ELSE Absent]

----------------------------------------------------------------------------
(* The engine's answer to a SELECT without its LIMIT: the rows of the table *)
(* that satisfy the WHERE clause bound to its own values, in the order of   *)
(* the ORDER BY clause.                                                     *)
DbOrdered(rows, where, terms) ==
    SortRows(Matching(rows, where.conds, where.params), terms)

(* executeSelect.  ordered is DbOrdered for the WHERE and ORDER BY clauses  *)
(* the call builds.  The page query and the count query are bound to the    *)
(* same values; a decodable `after` cursor appends the value of its id to   *)
(* them while the text of the WHERE clause stays as buildWhereClause made   *)
(* it.  ok is FALSE when the engine rejects the statement, in which case    *)
(* the call throws.                                                         *)

Undefined == "undefined"

executeSelect(ordered, workspaceId, filter, pagination) ==
    LET w == buildWhereClause(filter, workspaceId)
        pc == buildPaginationClause(pagination)
        decoded == decodeCursor(pagination.after[1])
        cursorFilter == <<FNeq("id", IF decoded.hasId THEN decoded.id ELSE Undefined)>>
        cursorParams == buildWhereClause(cursorFilter, workspaceId).params
        params == IF TruthyStr(pagination.after) /\ ~decoded.isNull
                  THEN w.params \o Tail(cursorParams)
                  ELSE w.params
        ok == BindOk(w.conds, params)
        records == IF ok THEN Take(ordered, pc.sqlLimit) ELSE <<>>
        page == buildPageInfo(records, pc.limit, pagination)
    IN [ok |-> ok,
        records |-> page.records,
        hasNextPage |-> page.hasNextPage,
        hasPreviousPage |-> page.hasPreviousPage,
        startCursor |-> page.startCursor,
        endCursor |-> page.endCursor,
        totalCount |-> IF ok THEN Len(ordered) ELSE 0]

----------------------------------------------------------------------------
(* Records and rows.  A record is a function from column names to values,   *)
(* as a JavaScript object; { ...a, ...b } is Merge(a, b).  A row of a table *)
(* has every column; uid, the number of the creation that made the row, is  *)
(* not a column: it tells a row from a later row that carries the same id.  *)

Merge(a, b) ==
    [k \in (DOMAIN a) \cup (DOMAIN b) |-> IF k \in DOMAIN b THEN b[k] ELSE a[k]]

StoreRow(record, uid) ==
    [id |-> record.id,
     workspaceId |-> record.workspaceId,
     createdAt |-> record.createdAt,
     updatedAt |-> record.updatedAt,
     deletedAt |-> IF "deletedAt" \in DOMAIN record THEN record.deletedAt ELSE NullTime,
     name |-> IF "name" \in DOMAIN record THEN record.name ELSE NullText,
     uid |-> uid]

(* INSERT: the primary key rejects an id the table holds already. *)
DbInsert(rows, record, uid) ==
    IF \E r \in rows : r.id = record.id
    THEN [ok |-> FALSE, rows |-> rows]
    ELSE [ok |-> TRUE, rows |-> rows \cup {StoreRow(record, uid)}]

(* db.batch: the statements are applied in order inside one transaction;    *)
(* when one is rejected the transaction is rolled back and the call throws. *)
RECURSIVE ApplyInserts(_, _, _)
ApplyInserts(rows, records, uids) ==
    IF records = <<>> THEN [ok |-> TRUE, rows |-> rows]
    ELSE LET one == DbInsert(rows, Head(records), Head(uids)) IN
         IF one.ok THEN ApplyInserts(one.rows, Tail(records), Tail(uids))
         ELSE [ok |-> FALSE, rows |-> rows]

(* A batch that keeps the rows inserted before the rejected one *)
DbBatch_NoRollback(rows, records, uids) == ApplyInserts(rows, records, uids)

DbBatch(rows, records, uids) ==
    LET res == ApplyInserts(rows, records, uids) IN
    IF res.ok THEN res ELSE [ok |-> FALSE, rows |-> rows]

(* A record in which the caller's data is spread last *)
InsertRecord_DataLast(id, data, workspaceId, t) ==
    Merge([id |-> id, workspaceId |-> workspaceId, createdAt |-> t, updatedAt |-> t], data)

InsertRecord(id, data, workspaceId, t) ==
    Merge(Merge([id |-> id], data),
          [workspaceId |-> workspaceId, createdAt |-> t, updatedAt |-> t])

(* executeInsert; id is the value of crypto.randomUUID(), t of new Date() *)
executeInsert(rows, workspaceId, data, id, t) ==
    LET record == InsertRecord(id, data, workspaceId, t)
        res == DbInsert(rows, record, id)
    IN [ok |-> res.ok, rows |-> res.rows, records |-> <<record>>]

(* executeInsertMany; the i-th row gets the id firstId + i - 1 *)
executeInsertMany(rows, workspaceId, dataArray, firstId, t) ==
    LET records == [i \in 1..Len(dataArray) |->
                       InsertRecord(firstId + i - 1, dataArray[i], workspaceId, t)]
        uids == [i \in 1..Len(dataArray) |-> firstId + i - 1]
        res == DbBatch(rows, records, uids)
    IN [ok |-> res.ok, rows |-> res.rows, records |-> records]

(* executeSelectOne: LIMIT 1 without ORDER BY returns any one of the rows   *)
(* that satisfy the clause; the result is the set of rows it may return     *)
(* (empty: the call returns null).                                          *)
executeSelectOne(rows, workspaceId, filter) ==
    LET w == buildWhereClause(filter, workspaceId)
    IN Matching(rows, w.conds, w.params)

(* UPDATE ... SET <updates> WHERE workspaceId = ? AND id = ? *)
DbUpdate(rows, target, updates) ==
    LET changed == {[c \in DOMAIN r |-> IF c \in DOMAIN updates THEN updates[c] ELSE r[c]]
                        : r \in target}
        kept == rows \ target
    IN IF \E r \in changed : \E o \in kept : o.id = r.id
       THEN [ok |-> FALSE, rows |-> rows, changes |-> 0]
       ELSE [ok |-> TRUE, rows |-> kept \cup changed, changes |-> Cardinality(target)]

(* An UPDATE whose WHERE lacks the workspaceId condition *)
ByTenantAndId_IdOnly(rows, workspaceId, id) ==
    {r \in rows : r.id = id}

ByTenantAndId(rows, workspaceId, id) ==
    {r \in rows : r.workspaceId = workspaceId /\ r.id = id}

(* executeUpdate: found is what the re-read by executeSelectOne may return *)
executeUpdate(rows, workspaceId, id, data, t) ==
    LET updates == Merge(data, [updatedAt |-> t])
        res == DbUpdate(rows, ByTenantAndId(rows, workspaceId, id), updates)
    IN [ok |-> res.ok, rows |-> res.rows,
        found |-> IF res.ok
                  THEN executeSelectOne(res.rows, workspaceId, <<FLit("id", id)>>)
                  ELSE {}]

(* A soft delete whose UPDATE lacks the "deletedAt" IS NULL condition *)
executeSoftDelete_Again(rows, workspaceId, id, t) ==
    LET res == DbUpdate(rows, ByTenantAndId(rows, workspaceId, id),
                        [deletedAt |-> t, updatedAt |-> t])
    IN [ok |-> res.ok, rows |-> res.rows,
        found |-> ByTenantAndId(res.rows, workspaceId, id)]

(* executeSoftDelete: found is what the unfiltered re-read returns *)
executeSoftDelete(rows, workspaceId, id, t) ==
    LET target == {r \in ByTenantAndId(rows, workspaceId, id) : r.deletedAt = NullTime}
        res == DbUpdate(rows, target, [deletedAt |-> t, updatedAt |-> t])
    IN [ok |-> res.ok, rows |-> res.rows,
        found |-> ByTenantAndId(res.rows, workspaceId, id)]

(* A hard delete whose DELETE lacks the tenant condition *)
executeHardDelete_AnyTenant(rows, workspaceId, id) ==
    LET target == {r \in rows : r.id = id}
    IN [ok |-> TRUE, rows |-> rows \ target, flag |-> Cardinality(target) > 0]

(* executeHardDelete: returns result.meta.changes > 0 *)
executeHardDelete(rows, workspaceId, id) ==
    LET target == ByTenantAndId(rows, workspaceId, id)
    IN [ok |-> TRUE, rows |-> rows \ target, flag |-> Cardinality(target) > 0]

(* addWorkspaceIdToEntity on an array of entities; d1 is isD1Environment() *)
addWorkspaceIdToEntity(entities, workspaceId, d1) ==
    IF ~d1 THEN entities
    ELSE [i \in 1..Len(entities) |-> Merge(entities[i], [workspaceId |-> workspaceId])]

----------------------------------------------------------------------------
(* Keyword search (search resolver) *)

DefaultSearchLimit == 20

(* STANDARD_OBJECTS in the order of its keys, and SEARCHABLE_FIELDS; the    *)
(* model keeps two objects with searchable fields and one without.          *)
StandardObjects == <<"company", "opportunity", "attachment">>
IsStandardObject(name) == \E i \in 1..Len(StandardObjects) : StandardObjects[i] = name
TableName(objectName) == objectName
SearchableFields(objectName) ==
    CASE objectName = "company" -> <<"name", "domainName">>
      [] objectName = "opportunity" -> <<"name">>
      [] OTHER -> <<>>

RECURSIVE escapeSearchQuery(_)
escapeSearchQuery(query) ==
    IF query = <<>> THEN <<>>
    ELSE (IF Head(query) \in {"%", "_"} THEN <<"\\", Head(query)>> ELSE <<Head(query)>>)
         \o escapeSearchQuery(Tail(query))

(* buildSearchQuery: WHERE workspaceId = ? AND "deletedAt" IS NULL AND      *)
(* (f1 LIKE ? OR f2 LIKE ? ...) LIMIT ?                                     *)
buildSearchQuery(objectName, searchFields, workspaceId, query, limit) ==
    LET likePattern == (<<"%">> \o escapeSearchQuery(query)) \o <<"%">>
    IN [objectName |-> objectName,
        conds |-> <<Cond("workspaceId", "=", 1), Cond("deletedAt", "ISNULL", 0)>>,
        either |-> [i \in 1..Len(searchFields) |-> Cond(searchFields[i], "LIKE", 1)],
        pattern |-> likePattern,
        params |-> (<<workspaceId>> \o [i \in 1..Len(searchFields) |-> likePattern])
                   \o <<limit>>]

(* The sequences of k distinct rows of a set (all of them when it has fewer) *)
RECURSIVE Arrangements(_, _)
Arrangements(rows, k) ==
    IF k = 0 \/ rows = {} THEN {<<>>}
    ELSE UNION {{<<r>> \o rest : rest \in Arrangements(rows \ {r}, k - 1)} : r \in rows}

(* The item the SELECT list makes of a row *)
SearchItem(r, q) ==
    LET hit == {i \in 1..Len(q.either) :
                    EvalCond(r, q.either[i], <<q.pattern>>)}
        filled == {i \in 1..Len(q.either) :
                    ~IsNull(q.either[i].field, r[q.either[i].field])}
        first(S) == CHOOSE i \in S : \A j \in S : i <= j
    IN [id |-> r.id, objectName |-> q.objectName, recordId |-> r.id, uid |-> r.uid,
        label |-> IF filled = {} THEN NullText ELSE r[q.either[first(filled)].field],
        snippet |-> IF hit = {} THEN <<>>
                    ELSE Take(r[q.either[first(hit)].field], 100),
        score |-> 1]

(* The engine's possible answers to a search statement: LIMIT without ORDER *)
(* BY keeps any rows that satisfy the clause, in any order.                 *)
DbSearch(rows, q) ==
    LET n == Len(q.either)
        found == {r \in rows :
                    /\ EvalAnd(r, q.conds, SubSeq(q.params, 1, 1))
                    /\ \E i \in 1..n : EvalCond(r, q.either[i], <<q.params[1 + i]>>)}
    IN {[i \in 1..Len(page) |-> SearchItem(page[i], q)]
           : page \in Arrangements(found, q.params[n + 2])}

Ceil(a, b) == (a + b - 1) \div b

(* The loop of createSearchResolver without its try/catch: the failure of   *)
(* one object's statement ends the call.                                    *)
RECURSIVE SearchEach_NoCatch(_, _, _, _, _, _)
SearchEach_NoCatch(tables, objects, workspaceId, query, limitPerType, failing) ==
    IF objects = <<>> THEN {[ok |-> TRUE, items |-> <<>>]}
    ELSE LET objectName == Head(objects)
             searchFields == SearchableFields(objectName)
             later == SearchEach_NoCatch(tables, Tail(objects), workspaceId, query,
                                         limitPerType, failing)
         IN IF searchFields = <<>> THEN later
            ELSE IF objectName \in failing THEN {[ok |-> FALSE, items |-> <<>>]}
            ELSE {[ok |-> rest.ok, items |-> IF rest.ok THEN items \o rest.items ELSE <<>>] :
                    items \in DbSearch(tables[TableName(objectName)],
                                       buildSearchQuery(objectName, searchFields,
                                                        workspaceId, query, limitPerType)),
                    rest \in later}

(* The loop of createSearchResolver over objectsToSearch.  failing is the   *)
(* set of objects whose statement the engine fails to run: the catch block  *)
(* logs the error and the loop goes on with the next object.                *)
RECURSIVE SearchEach(_, _, _, _, _, _)
SearchEach(tables, objects, workspaceId, query, limitPerType, failing) ==
    IF objects = <<>> THEN {[ok |-> TRUE, items |-> <<>>]}
    ELSE LET objectName == Head(objects)
             searchFields == SearchableFields(objectName)
             later == SearchEach(tables, Tail(objects), workspaceId, query,
                                 limitPerType, failing)
         IN IF searchFields = <<>> THEN later
            ELSE IF objectName \in failing THEN later
            ELSE {[ok |-> rest.ok, items |-> items \o rest.items] :
                    items \in DbSearch(tables[TableName(objectName)],
                                       buildSearchQuery(objectName, searchFields,
                                                        workspaceId, query, limitPerType)),
                    rest \in later}

(* createSearchResolver: the set of outcomes of the call; ok is FALSE when  *)
(* the call throws.                                                         *)
createSearchResolver(tables, workspaceId, query, objectNames, limitArg, failing) ==
    LET limit == IF limitArg = Absent THEN DefaultSearchLimit ELSE limitArg[1]
        objectsToSearch ==
            IF objectNames # Absent /\ Len(objectNames[1]) > 0
            THEN SelectSeq(objectNames[1], IsStandardObject)
            ELSE StandardObjects
    IN IF query = <<>> THEN {[ok |-> TRUE, items |-> <<>>]}
       ELSE IF objectsToSearch = <<>> THEN {[ok |-> TRUE, items |-> <<>>]}
       ELSE {[ok |-> all.ok, items |-> IF all.ok THEN Take(all.items, limit) ELSE <<>>] :
                all \in SearchEach(tables, objectsToSearch, workspaceId, query,
                                   Ceil(limit, Len(objectsToSearch)), failing)}

----------------------------------------------------------------------------
(* Inputs of the calls *)

FilterInputs ==
    << <<>>,
       <<FLike("name", <<"a">>)>>,
       <<FNull("name")>>,
       <<FLit("workspaceId", "T2")>>,
       <<FIn("deletedAt", <<1, 2>>)>>,
       <<FEq("id", 1), FNeq("name", <<"a">>)>> >>

OrderSpec(f, d, n) == [field |-> f, direction |-> d, nulls |-> n]

OrderInputs ==
    << <<>>,
       <<OrderSpec("name", "ASC", "")>>,
       <<OrderSpec("name", "DESC", "FIRST")>>,
       <<OrderSpec("createdAt", "", "")>> >>

PageSizes == {Absent} \cup {<<n>> : n \in 0..MaxPage}

BadCursors == {Cursor(k, 0) : k \in {"emptyobj", "jsonnull", "notjson", "notb64", "empty"}}

(* The record of a call; fields a call does not use keep these values. *)
NoError == [name |-> "none"]

NoRet ==
    [op |-> "none", ws |-> "", tbl |-> "", id |-> 0, ok |-> TRUE,
     rows |-> <<>>, fi |-> 1, oi |-> 1, pg |-> Pg(Absent, Absent, Absent, Absent),
     hasNextPage |-> FALSE, hasPreviousPage |-> FALSE,
     startCursor |-> Absent, endCursor |-> Absent, totalCount |-> 0,
     before |-> {}, flag |-> FALSE, d1 |-> TRUE, di |-> 1,
     objectNames |-> Absent, limit |-> Absent, failing |-> {},
     error |-> NoError, cause |-> "none", where |-> <<>>, stmts |-> <<>>]

NoTrav == [on |-> FALSE, ws |-> "", tbl |-> "", fi |-> 1, oi |-> 1, n |-> 0,
           pages |-> <<>>, cursor |-> Absent, done |-> FALSE, failed |-> FALSE]

\* a new D1TransactionBuilder (statements = []) and an engine that has
\* received no batch; hist is the ghost record of the calls on the builder
\* no call in progress: two invocations that have not started, no UPDATE
\* applied, no read-many between its two statements
Procs == {1, 2}
NoProc == [pc |-> "idle"]
NoRead == [pc |-> "idle"]
NoConc == [proc |-> [p \in Procs |-> NoProc], log |-> <<>>, read |-> NoRead]

\* a column nothing was written to yet
NoCell == [step |-> "new", tr |-> "", malformed |-> FALSE]

NoTx == [statements |-> <<>>, calls |-> <<>>, applied |-> <<>>,
         hist |-> <<>>, n |-> 0]

SelectRet(tbl, ws, fi, oi, pg, ordered) ==
    LET res == executeSelect(ordered, ws, FilterInputs[fi], pg)
    IN [NoRet EXCEPT !.op = "select", !.ws = ws, !.tbl = tbl, !.fi = fi,
                     !.oi = oi, !.pg = pg, !.ok = res.ok,
                     !.rows = IF res.ok THEN res.records ELSE <<>>,
                     !.hasNextPage = res.ok /\ res.hasNextPage,
                     !.hasPreviousPage = res.ok /\ res.hasPreviousPage,
                     !.startCursor = IF res.ok THEN res.startCursor ELSE Absent,
                     !.endCursor = IF res.ok THEN res.endCursor ELSE Absent,
                     !.totalCount = IF res.ok THEN res.totalCount ELSE 0]

----------------------------------------------------------------------------
(* The resolvers on a database that every tenant reads and writes.  One     *)
(* call is served at a time: a call is taken when no result is pending.     *)
(* born counts the rows stored so far and born + 1 stands for the next      *)
(* value of crypto.randomUUID(): an id generated for a rejected row is      *)
(* never seen again, so the counter advances only when rows are stored.     *)

EmptyData == [k \in {} |-> 0]

DataInputs ==
    << EmptyData,
       [name |-> <<"a">>],
       [id |-> 1],
       [workspaceId |-> "T2"] >>

(* Arguments of create-many: the indices in DataInputs of the rows' data *)
BatchInputs == << <<>>, <<2>>, <<2, 4>>, <<1, 3>>, <<3, 2>> >>

SearchQueries == << <<>>, <<"a">>, <<"b">>, <<"%">> >>

ObjectNameInputs == {Absent, << <<"opportunity">> >>, << <<"nothing">> >>}

Init ==
    /\ db = [t \in StoredTables |-> {}]
    /\ now = 1
    /\ removed = {}
    /\ born = 0
    /\ ret = NoRet
    /\ trav = NoTrav
    /\ tx = NoTx
    /\ cell = NoCell
    /\ conc = NoConc

Idle == ret.op = "none"

(* Time passes between calls *)
Tick ==
    /\ Idle
    /\ now < MaxTime
    /\ now' = now + 1
    /\ UNCHANGED <<db, removed, born, ret, trav, tx, cell, conc>>

CreateOne ==
    /\ Idle
    /\ born < MaxBorn
    /\ \E tbl \in Tables, ws \in Tenants, di \in 1..Len(DataInputs) :
        LET res == executeInsert(db[tbl], ws, DataInputs[di], born + 1, now)
        IN /\ db' = [db EXCEPT ![tbl] = res.rows]
           /\ ret' = [NoRet EXCEPT !.op = "insert", !.ws = ws, !.tbl = tbl,
                                   !.di = di, !.ok = res.ok, !.before = db[tbl],
                                   !.rows = IF res.ok THEN res.records ELSE <<>>]
           /\ born' = IF res.ok THEN born + 1 ELSE born
    /\ UNCHANGED <<now, removed, trav, tx, cell, conc>>

CreateMany ==
    /\ Idle
    /\ \E tbl \in Tables, ws \in Tenants, bi \in 1..Len(BatchInputs) :
        LET dataArray == [i \in 1..Len(BatchInputs[bi]) |-> DataInputs[BatchInputs[bi][i]]]
            res == executeInsertMany(db[tbl], ws, dataArray, born + 1, now)
        IN /\ born + Len(dataArray) <= MaxBorn
           /\ db' = [db EXCEPT ![tbl] = res.rows]
           /\ ret' = [NoRet EXCEPT !.op = "insertMany", !.ws = ws, !.tbl = tbl,
                                   !.di = bi, !.ok = res.ok, !.before = db[tbl],
                                   !.rows = IF res.ok THEN res.records ELSE <<>>]
           /\ born' = IF res.ok THEN born + Len(dataArray) ELSE born
    /\ UNCHANGED <<now, removed, trav, tx, cell, conc>>

UpdateOne ==
    /\ Idle
    /\ \E tbl \in Tables, ws \in Tenants, id \in 1..MaxBorn, di \in 1..Len(DataInputs) :
        LET res == executeUpdate(db[tbl], ws, id, DataInputs[di], now)
        IN /\ db' = [db EXCEPT ![tbl] = res.rows]
           /\ \E out \in IF res.found = {} THEN {<<>>} ELSE {<<r>> : r \in res.found} :
                ret' = [NoRet EXCEPT !.op = "update", !.ws = ws, !.tbl = tbl, !.id = id,
                                     !.di = di, !.ok = res.ok, !.before = db[tbl],
                                     !.rows = out]
    /\ UNCHANGED <<now, removed, born, trav, tx, cell, conc>>

DeleteOne ==
    /\ Idle
    /\ \E tbl \in Tables, ws \in Tenants, id \in 1..MaxBorn :
        LET res == executeSoftDelete(db[tbl], ws, id, now)
        IN /\ db' = [db EXCEPT ![tbl] = res.rows]
           /\ \E out \in IF res.found = {} THEN {<<>>} ELSE {<<r>> : r \in res.found} :
                ret' = [NoRet EXCEPT !.op = "softDelete", !.ws = ws, !.tbl = tbl,
                                     !.id = id, !.ok = res.ok, !.before = db[tbl],
                                     !.rows = out]
    /\ UNCHANGED <<now, removed, born, trav, tx, cell, conc>>

HardDeleteOne ==
    /\ Idle
    /\ \E tbl \in Tables, ws \in Tenants, id \in 1..MaxBorn :
        LET res == executeHardDelete(db[tbl], ws, id)
        IN /\ db' = [db EXCEPT ![tbl] = res.rows]
           /\ removed' = removed \cup {r.uid : r \in db[tbl] \ res.rows}
           /\ ret' = [NoRet EXCEPT !.op = "hardDelete", !.ws = ws, !.tbl = tbl,
                                   !.id = id, !.ok = res.ok, !.before = db[tbl],
                                   !.flag = res.flag]
    /\ UNCHANGED <<now, born, trav, tx, cell, conc>>

FindOne ==
    /\ Idle
    /\ \E tbl \in Tables, ws \in Tenants, fi \in 1..Len(FilterInputs) :
        LET found == executeSelectOne(db[tbl], ws, FilterInputs[fi])
        IN \E out \in IF found = {} THEN {<<>>} ELSE {<<r>> : r \in found} :
             ret' = [NoRet EXCEPT !.op = "selectOne", !.ws = ws, !.tbl = tbl,
                                  !.rows = out]
    /\ UNCHANGED <<db, now, removed, born, trav, tx, cell, conc>>

(* Read-many; the record of the call keeps its arguments and its result *)
ReadMany ==
    /\ Idle
    /\ \E tbl \in Tables, ws \in Tenants, fi \in 1..Len(FilterInputs),
          oi \in 1..Len(OrderInputs),
          pg \in {Pg(Absent, Absent, Absent, Absent), Pg(<<1>>, Absent, Absent, Absent),
                  Pg(Absent, <<1>>, Absent, Absent)} :
        LET ordered == DbOrdered(db[tbl], buildWhereClause(FilterInputs[fi], ws),
                                 buildOrderByClause(OrderInputs[oi]))
        IN ret' = SelectRet(tbl, ws, fi, oi, pg, ordered)
    /\ UNCHANGED <<db, now, removed, born, trav, tx, cell, conc>>

Search ==
    /\ Idle
    /\ \E ws \in Tenants, qi \in 1..Len(SearchQueries), objectNames \in ObjectNameInputs,
          limit \in {Absent, <<1>>}, failing \in {{}, {"opportunity"}} :
        \E res \in createSearchResolver(db, ws, SearchQueries[qi], objectNames, limit,
                                         failing) :
            ret' = [NoRet EXCEPT !.op = "search", !.ws = ws, !.ok = res.ok,
                                 !.rows = res.items]
    /\ UNCHANGED <<db, now, removed, born, trav, tx, cell, conc>>

ScopeEntity ==
    /\ Idle
    /\ \E ws \in Tenants, bi \in 1..Len(BatchInputs), d1 \in BOOLEAN :
        LET entities == [i \in 1..Len(BatchInputs[bi]) |-> DataInputs[BatchInputs[bi][i]]]
        IN ret' = [NoRet EXCEPT !.op = "scope", !.ws = ws, !.di = bi, !.d1 = d1,
                                !.rows = addWorkspaceIdToEntity(entities, ws, d1)]
    /\ UNCHANGED <<db, now, removed, born, trav, tx, cell, conc>>

----------------------------------------------------------------------------
(* Read-many on a table that other calls leave alone: the pagination        *)
(* specification.  The table holds count rows of tenant T1, created one     *)
(* after the other.                                                         *)

NameOf(i) == IF i % 3 = 0 THEN NullText ELSE IF i % 3 = 1 THEN <<"a">> ELSE <<"A", "b">>

PageRow(i) ==
    [id |-> i, workspaceId |-> "T1", createdAt |-> i, updatedAt |-> i,
     deletedAt |-> NullTime, name |-> NameOf(i), uid |-> i]

PageInit ==
    /\ \E count \in (0..MaxSmall) \cup ((DefaultPageSize - 1)..(DefaultPageSize + MaxOver)) :
          db = [t \in StoredTables |->
                    IF t \in Tables THEN {PageRow(i) : i \in 1..count} ELSE {}]
    /\ now = 1
    /\ removed = {}
    /\ born = 0
    /\ ret = NoRet
    /\ trav = NoTrav
    /\ tx = NoTx
    /\ cell = NoCell
    /\ conc = NoConc

(* createFindManyResolver: one read-many call.  A read changes nothing a    *)
(* walk in progress sees, so single calls are taken between walks.          *)
FindMany ==
    /\ ret.op = "none"
    /\ ~trav.on
    /\ \E tbl \in Tables, ws \in Tenants, fi \in 1..Len(FilterInputs),
          oi \in 1..Len(OrderInputs) :
      \E ordered \in {DbOrdered(db[tbl], buildWhereClause(FilterInputs[fi], ws),
                                 buildOrderByClause(OrderInputs[oi]))},
         first \in PageSizes, last \in PageSizes,
         before \in {Absent, <<encodeCursor(1)>>},
            after \in {Absent} \cup {<<c>> : c \in BadCursors}
                       \cup {<<encodeCursor(r.id)>> : r \in {x \in db[tbl] : x.id = 1}} :
          /\ ret' = SelectRet(tbl, ws, fi, oi, Pg(first, last, after, before), ordered)
          /\ UNCHANGED <<db, now, removed, born, trav, tx, cell, conc>>

(* The invocation that served the call ends; nothing of it is kept. *)
Return ==
    /\ ret.op # "none"
    /\ ret' = NoRet
    /\ UNCHANGED <<db, now, removed, born, trav, tx, cell, conc>>

(* A client walks a query page by page: the first call asks for n rows,    *)
(* each further call passes the endCursor of the page before as `after`,    *)
(* until a page reports hasNextPage = FALSE or a call throws.               *)
RowIds(rows) == [i \in 1..Len(rows) |-> rows[i].id]

WalkStart ==
    /\ ret.op = "none"
    /\ ~trav.on
    /\ \E tbl \in Tables, ws \in Tenants, fi \in 1..Len(FilterInputs),
          oi \in 1..Len(OrderInputs), n \in 1..MaxPage :
        LET ordered == DbOrdered(db[tbl], buildWhereClause(FilterInputs[fi], ws),
                                 buildOrderByClause(OrderInputs[oi]))
            res == SelectRet(tbl, ws, fi, oi, Pg(<<n>>, Absent, Absent, Absent), ordered)
        IN /\ ret' = res
           /\ trav' = [on |-> TRUE, ws |-> ws, tbl |-> tbl, fi |-> fi, oi |-> oi,
                       n |-> n, pages |-> RowIds(res.rows), cursor |-> res.endCursor,
                       done |-> res.ok /\ ~res.hasNextPage, failed |-> ~res.ok]
    /\ UNCHANGED <<db, now, removed, born, tx, cell, conc>>

WalkNext ==
    /\ ret.op = "none"
    /\ trav.on /\ ~trav.done /\ ~trav.failed
    /\ LET ordered == DbOrdered(db[trav.tbl],
                                buildWhereClause(FilterInputs[trav.fi], trav.ws),
                                buildOrderByClause(OrderInputs[trav.oi]))
           res == SelectRet(trav.tbl, trav.ws, trav.fi, trav.oi,
                            Pg(<<trav.n>>, Absent, trav.cursor, Absent), ordered)
       IN /\ ret' = res
          /\ trav' = [trav EXCEPT !.pages = @ \o RowIds(res.rows),
                                  !.cursor = res.endCursor,
                                  !.done = res.ok /\ ~res.hasNextPage,
                                  !.failed = ~res.ok]
    /\ UNCHANGED <<db, now, removed, born, tx, cell, conc>>

WalkEnd ==
    /\ trav.on /\ (trav.done \/ trav.failed)
    /\ trav' = NoTrav
    /\ UNCHANGED <<db, now, removed, born, ret, tx, cell, conc>>

PageNext == FindMany \/ Return \/ WalkStart \/ WalkNext \/ WalkEnd

PageSpec == PageInit /\ [][PageNext]_vars

----------------------------------------------------------------------------
(* Keyword search over two tables that other calls leave alone, with        *)
(* statements that the engine may fail to run.                              *)

SeedRow(t, i) ==
    LET base == [id |-> i,
                 workspaceId |-> IF i = 3 THEN "T2" ELSE "T1",
                 createdAt |-> 1, updatedAt |-> 1,
                 deletedAt |-> IF i = 4 THEN 1 ELSE NullTime,
                 name |-> CASE i = 2 -> IF t = "company" THEN NullText ELSE <<"a", "b">>
                            [] i = 3 -> <<"\\", "a">>
                            [] i > 4 -> <<"b">>
                            [] OTHER -> <<"a">>,
                 uid |-> IF t = "company" THEN 2 * i ELSE 2 * i + 1]
    IN IF t = "company"
       THEN Merge(base, [domainName |-> IF i = 2 THEN <<"a", "b">> ELSE NullText])
       ELSE base

SearchInit ==
    /\ \E c \in SUBSET (1..MaxSeed), o \in SUBSET (1..MaxSeed) :
          db = [t \in StoredTables |->
                    {SeedRow(t, i) : i \in IF t = "company" THEN c ELSE o}]
    /\ now = 1
    /\ removed = {}
    /\ born = 0
    /\ ret = NoRet
    /\ trav = NoTrav
    /\ tx = NoTx
    /\ cell = NoCell
    /\ conc = NoConc

SearchObjectInputs == ObjectNameInputs \cup { << <<"opportunity", "company">> >> }

(* createSearchResolver: one search call; the record of the call keeps its *)
(* arguments and the objects whose statement failed.                        *)
SearchCall ==
    /\ ret.op = "none"
    /\ \E ws \in Tenants, qi \in 1..Len(SearchQueries), objectNames \in SearchObjectInputs,
          limit \in PageSizes, failing \in SUBSET {"company", "opportunity"} :
        \E res \in createSearchResolver(db, ws, SearchQueries[qi], objectNames, limit,
                                         failing) :
            ret' = [NoRet EXCEPT !.op = "search", !.ws = ws, !.di = qi,
                                 !.objectNames = objectNames, !.limit = limit,
                                 !.failing = failing, !.ok = res.ok, !.rows = res.items]
    /\ UNCHANGED <<db, now, removed, born, trav, tx, cell, conc>>

(* read-many with the filter { name: { like: text } }; the record of the   *)
(* call keeps the text                                                      *)
LikeCall ==
    /\ ret.op = "none"
    /\ \E tbl \in Tables, ws \in Tenants, qi \in 1..Len(SearchQueries) :
        \E filter \in {<<FLike("name", SearchQueries[qi])>>} :
          \E res \in {executeSelect(DbOrdered(db[tbl], buildWhereClause(filter, ws),
                                              buildOrderByClause(<<>>)),
                                    ws, filter, NoRet.pg)} :
            ret' = [NoRet EXCEPT !.op = "like", !.ws = ws, !.tbl = tbl, !.di = qi,
                                 !.ok = res.ok,
                                 !.rows = IF res.ok THEN res.records ELSE <<>>]
    /\ UNCHANGED <<db, now, removed, born, trav, tx, cell, conc>>

SearchNext == SearchCall \/ LikeCall \/ Return

SearchSpec == SearchInit /\ [][SearchNext]_vars

Next ==
    \/ Tick
    \/ CreateOne
    \/ CreateMany
    \/ UpdateOne
    \/ DeleteOne
    \/ HardDeleteOne
    \/ FindOne
    \/ ReadMany
    \/ Search
    \/ ScopeEntity
    \/ Return

Spec == Init /\ [][Next]_vars

----------------------------------------------------------------------------
(* What a read of tenant ws through filter fi is to see: the rows of the    *)
(* tenant that are not soft-deleted and satisfy the caller's conditions, in *)
(* the requested order.                                                     *)

Visible(tbl, ws, fi) ==
    {r \in db[tbl] : /\ r.workspaceId = ws
                     /\ r.deletedAt = NullTime
                     /\ EvalAnd(r, FilterConds(FilterInputs[fi]),
                                FilterParams(FilterInputs[fi]))}

FullOrdered(tbl, ws, fi, oi) ==
    SortRows(Visible(tbl, ws, fi), buildOrderByClause(OrderInputs[oi]))

NoCursor(pg) == pg.after = Absent /\ pg.before = Absent

(* C4: a read-many call that asks for page size n (as first, as last, or    *)
(* the default 50 when neither is given) returns at most n rows.            *)
C4_PageSizeBound ==
    ret.op = "select" =>
        /\ (ret.pg.first # Absent /\ ret.pg.last = Absent
               => Len(ret.rows) <= ret.pg.first[1])
        /\ (ret.pg.last # Absent /\ ret.pg.first = Absent
               => Len(ret.rows) <= ret.pg.last[1])
        /\ (ret.pg.first = Absent /\ ret.pg.last = Absent
               => Len(ret.rows) <= DefaultPageSize)

C4_Witness ==
    /\ ret.op = "select"
    /\ ret.pg.first = Absent /\ ret.pg.last = Absent
    /\ Len(ret.rows) = DefaultPageSize
    /\ ret.totalCount > DefaultPageSize

(* C5: for a read-many call with first given, or with neither first nor     *)
(* last given, hasNextPage is true exactly when matching rows exist after   *)
(* the returned page.                                                       *)
C5_HasNextPageIff ==
    (ret.op = "select" /\ ret.ok /\ ret.pg.last = Absent) =>
        (ret.hasNextPage <=>
            Len(FullOrdered(ret.tbl, ret.ws, ret.fi, ret.oi)) > Len(ret.rows))

(* C6: the pages of a finished walk, put together, are the full ordered     *)
(* sequence of the matching rows, each row once; no call of the walk fails. *)
C6_CursorResumption ==
    (trav.on /\ (trav.done \/ trav.failed)) =>
        /\ ~trav.failed
        /\ trav.pages = RowIds(FullOrdered(trav.tbl, trav.ws, trav.fi, trav.oi))

(* C7: read-many with last = n and no first returns the final n rows of     *)
(* the ordered result, in the requested order, and hasPreviousPage is true  *)
(* exactly when earlier matching rows exist.                                *)
C7_BackwardMirror ==
    (ret.op = "select" /\ ret.ok /\ ret.pg.last # Absent /\ ret.pg.first = Absent
        /\ NoCursor(ret.pg)) =>
        LET full == FullOrdered(ret.tbl, ret.ws, ret.fi, ret.oi)
            n == ret.pg.last[1]
            from == IF Len(full) > n THEN Len(full) - n + 1 ELSE 1
        IN /\ ret.rows = SubSeq(full, from, Len(full))
           /\ ret.hasPreviousPage <=> (Len(full) > n)

----------------------------------------------------------------------------
(* Properties of the resolvers under Spec *)

(* The stored row a returned row or search item was read from *)
SourceRows(item) == {r \in UNION {db[t] : t \in StoredTables} : r.uid = item.uid}

ReadOps == {"select", "selectOne", "search"}

(* C1: every row that read-many, read-one or keyword search returns to a   *)
(* call made for tenant T has workspaceId = T, after any sequence of        *)
(* creates, updates and deletes by any tenant and for any filter.           *)
C1_TenantIsolationReads ==
    ret.op \in ReadOps =>
        \A i \in 1..Len(ret.rows) :
            /\ SourceRows(ret.rows[i]) # {}
            /\ \A r \in SourceRows(ret.rows[i]) : r.workspaceId = ret.ws

(* A read-many for one tenant returns rows while the other tenant has live *)
(* rows in the same table.                                                  *)
C1_Witness ==
    /\ ret.op = "select"
    /\ Len(ret.rows) > 0
    /\ \E r \in db[ret.tbl] : r.workspaceId # ret.ws /\ r.deletedAt = NullTime

(* C2: read-many, read-one and keyword search never return a row whose     *)
(* deletedAt is set, whatever filter the caller supplies.                   *)
C2_SoftDeletedExcluded ==
    ret.op \in ReadOps =>
        \A i \in 1..Len(ret.rows) :
            \A r \in SourceRows(ret.rows[i]) : r.deletedAt = NullTime

(* A search returns an item while the tenant has a soft-deleted row that   *)
(* the keyword matches too.                                                 *)
C2_Witness ==
    /\ ret.op = "search"
    /\ Len(ret.rows) > 0
    /\ \E r \in db["opportunity"] :
        /\ r.workspaceId = ret.ws
        /\ r.deletedAt # NullTime
        /\ r.name = ret.rows[1].label

(* C3: hard-delete-one(T, id) returns true exactly when a row of tenant T  *)
(* with that id existed (soft-deleted or not) and was removed, false        *)
(* otherwise with nothing removed; a row removed this way is stored no      *)
(* more and no later read, re-read of an update or of a soft delete         *)
(* included, returns it.                                                    *)
C3_HardDelete ==
    /\ ret.op = "hardDelete" =>
        LET target == {r \in ret.before : r.workspaceId = ret.ws /\ r.id = ret.id}
        IN /\ ret.flag = (target # {})
           /\ db[ret.tbl] = ret.before \ target
    /\ \A t \in StoredTables : \A r \in db[t] : r.uid \notin removed
    /\ ret.op \in ReadOps \cup {"softDelete", "update"} =>
        \A i \in 1..Len(ret.rows) : ret.rows[i].uid \notin removed

(* A read returns a row that carries the id of a row hard-deleted before *)
C3_Witness ==
    /\ ret.op = "selectOne"
    /\ Len(ret.rows) = 1
    /\ ret.rows[1].id \in removed

(* C8: soft-delete-one on a row that is soft-deleted already raises no     *)
(* error and leaves the row, its deletedAt and updatedAt included, as it    *)
(* was; the call returns that row.                                          *)
C8_SoftDeleteIdempotent ==
    ret.op = "softDelete" =>
        \A r \in ret.before :
            (r.workspaceId = ret.ws /\ r.id = ret.id /\ r.deletedAt # NullTime) =>
                /\ ret.ok
                /\ r \in db[ret.tbl]
                /\ ret.rows = <<r>>

(* The second delete is made at a later time than the first *)
C8_Witness ==
    /\ ret.op = "softDelete"
    /\ \E r \in ret.before :
        /\ r.workspaceId = ret.ws /\ r.id = ret.id
        /\ r.deletedAt # NullTime /\ r.deletedAt < now

(* C9: create-many is atomic: when the insertion of one row of the call is *)
(* rejected the table is left as it was, and otherwise every row of the     *)
(* call is stored.                                                          *)
C9_CreateManyAtomic ==
    ret.op = "insertMany" =>
        IF ret.ok
        THEN /\ ret.before \subseteq db[ret.tbl]
             /\ Len(ret.rows) = Len(BatchInputs[ret.di])
             /\ Cardinality(db[ret.tbl] \ ret.before) = Len(ret.rows)
             /\ \A i \in 1..Len(ret.rows) :
                    \E r \in db[ret.tbl] \ ret.before : r.id = ret.rows[i].id
        ELSE db[ret.tbl] = ret.before

(* A batch of two rows is rejected for its second row: the first row has a *)
(* generated id that no stored row has.                                     *)
C9_Witness ==
    /\ ret.op = "insertMany"
    /\ ~ret.ok
    /\ BatchInputs[ret.di] = <<1, 3>>
    /\ \A r \in ret.before : r.id # born + 1

HasWorkspace(e, ws) == "workspaceId" \in DOMAIN e /\ e.workspaceId = ws

StoredWithTenant ==
    (ret.op \in {"insert", "insertMany"} /\ ret.ok) =>
        /\ \A r \in db[ret.tbl] \ ret.before : r.workspaceId = ret.ws
        /\ \A i \in 1..Len(ret.rows) : HasWorkspace(ret.rows[i], ret.ws)

(* C10 as stated: every row stored by create-one or create-many, and every *)
(* entity passed through addWorkspaceIdToEntity, carries the caller's       *)
(* tenant id as workspaceId.                                                *)
C10_AsStated ==
    /\ StoredWithTenant
    /\ ret.op = "scope" =>
        \A i \in 1..Len(ret.rows) : HasWorkspace(ret.rows[i], ret.ws)

(* C10 amended: every row stored by create-one or create-many carries the  *)
(* caller's tenant id as workspaceId, and so does every entity passed       *)
(* through addWorkspaceIdToEntity in a D1 environment; elsewhere            *)
(* addWorkspaceIdToEntity returns the entity as it was given.               *)
C10_TenantScopedWrites ==
    /\ StoredWithTenant
    /\ ret.op = "scope" =>
        IF ret.d1
        THEN \A i \in 1..Len(ret.rows) : HasWorkspace(ret.rows[i], ret.ws)
        ELSE ret.rows = [i \in 1..Len(BatchInputs[ret.di]) |->
                            DataInputs[BatchInputs[ret.di][i]]]

(* A create-many for T1 stores a row whose data named T2 as workspaceId *)
C10_Witness ==
    /\ ret.op = "insertMany"
    /\ ret.ok
    /\ ret.ws = "T1"
    /\ BatchInputs[ret.di] = <<2, 4>>

WriteOps == {"insert", "insertMany", "update", "softDelete", "hardDelete"}

(* C11: create-one and create-many give every new row the id the engine    *)
(* generated for it, never one taken from the caller's data and never the   *)
(* id of a row stored before, and set createdAt = updatedAt = the time of   *)
(* the call.                                                                *)
C11_FreshIdAndTimes ==
    (ret.op \in {"insert", "insertMany"} /\ ret.ok) =>
        \A r \in db[ret.tbl] \ ret.before :
            /\ r.id = r.uid
            /\ \A o \in ret.before : o.id # r.id
            /\ r.createdAt = now /\ r.updatedAt = now

(* C12: through create, update-one, soft-delete-one and hard-delete-one    *)
(* calls with any data, a stored row keeps the id and the workspaceId it    *)
(* had before the call, hence those of its creation.                        *)
C12_IdentityImmutable ==
    ret.op \in WriteOps =>
        \A r \in db[ret.tbl] : \A o \in ret.before :
            o.uid = r.uid => (o.id = r.id /\ o.workspaceId = r.workspaceId)

(* C13: update-one on a stored row of the caller's tenant does not fail,   *)
(* writes the supplied columns, sets updatedAt to the time of the call and  *)
(* returns the row as it is stored after the update.                        *)
C13_UpdateReturnsStoredRow ==
    ret.op = "update" =>
        \A o \in ret.before :
            (o.workspaceId = ret.ws /\ o.id = ret.id) =>
                /\ ret.ok
                /\ \E r \in db[ret.tbl] :
                    /\ r.uid = o.uid
                    /\ r.updatedAt = now
                    /\ \A k \in DOMAIN DataInputs[ret.di] : r[k] = DataInputs[ret.di][k]
                    /\ ret.rows = <<r>>

----------------------------------------------------------------------------
(* Properties of keyword search under SearchSpec *)

(* The objects a recorded search call asked for *)
SearchedObjects ==
    IF ret.objectNames # Absent /\ Len(ret.objectNames[1]) > 0
    THEN SelectSeq(ret.objectNames[1], IsStandardObject)
    ELSE StandardObjects

(* Those of them that have searchable fields and whose statement ran *)
OtherSearched ==
    {e \in {SearchedObjects[i] : i \in 1..Len(SearchedObjects)} :
        SearchableFields(e) # <<>>} \ ret.failing

SearchLimit == IF ret.limit = Absent THEN DefaultSearchLimit ELSE ret.limit[1]

(* The live rows of the caller's tenant that the keyword matches in one of *)
(* the searchable fields of object e                                        *)
KeywordMatches(e) ==
    LET q == buildSearchQuery(e, SearchableFields(e), ret.ws, SearchQueries[ret.di], 0)
    IN {r \in db[TableName(e)] :
          /\ r.workspaceId = ret.ws
          /\ r.deletedAt = NullTime
          /\ \E i \in 1..Len(q.either) : EvalCond(r, q.either[i], <<q.pattern>>)}

ItemsOf(e) == {ret.rows[i].uid : i \in {j \in 1..Len(ret.rows) : ret.rows[j].objectName = e}}

FailedSearch ==
    ret.op = "search" /\ ret.failing # {} /\ SearchQueries[ret.di] # <<>>

(* C14 as stated: when the statement of one object fails, the search call  *)
(* completes without raising and, unless the total limit cut the result,    *)
(* the result holds every match of every other searched object.             *)
C14_AsStated ==
    FailedSearch =>
        /\ ret.ok
        /\ Len(ret.rows) < SearchLimit =>
            \A e \in OtherSearched : {r.uid : r \in KeywordMatches(e)} \subseteq ItemsOf(e)

(* C14 amended: when the statement of one object fails, the search call    *)
(* completes without raising; of every other searched object the result     *)
(* holds matches only and, unless the total limit cut the result, as many   *)
(* as the object has, up to the limit per object ceil(limit / number of     *)
(* searched objects).                                                       *)
C14_FailureIsolated ==
    FailedSearch =>
        /\ ret.ok
        /\ \A e \in OtherSearched :
            LET matches == {r.uid : r \in KeywordMatches(e)}
                perType == Ceil(SearchLimit, Len(SearchedObjects))
            IN /\ ItemsOf(e) \subseteq matches
               /\ Len(ret.rows) < SearchLimit =>
                    Cardinality(ItemsOf(e)) =
                        IF Cardinality(matches) < perType THEN Cardinality(matches)
                        ELSE perType

(* The statement on company fails while company holds a match, and the     *)
(* result has an item of opportunity.                                       *)
C14_Witness ==
    /\ FailedSearch
    /\ ret.failing = {"company"}
    /\ "company" \in {SearchedObjects[i] : i \in 1..Len(SearchedObjects)}
    /\ KeywordMatches("company") # {}
    /\ ItemsOf("opportunity") # {}


----------------------------------------------------------------------------
(* The D1 driver adapter and its batch builder (d1.datasource.ts)           *)

\* what can go wrong inside the engine while it runs a statement
EngineFailures == {"timeout", "syntax", "too_large"}

\* The engine's answer to all() and run(): a result object with its success
\* flag and optional error text, or a rejected promise.
ResultOutcomes ==
    {[kind |-> "result", success |-> TRUE, error |-> "undefined"]}
    \cup {[kind |-> "result", success |-> FALSE, error |-> e] :
              e \in EngineFailures \cup {"undefined"}}
    \cup {[kind |-> "rejects", error |-> e] : e \in EngineFailures}

\* first() and batch() have no success flag: they resolve or reject
PlainOutcomes ==
    {[kind |-> "resolves", error |-> "undefined"]}
    \cup {[kind |-> "rejects", error |-> e] : e \in EngineFailures}

\* the error object the runtime raises when an engine promise rejects
EngineError(outcome) == [name |-> "Error", message |-> <<outcome.error>>]

D1Error(message, sql, d1Error) ==
    [name |-> "D1Error",
     message |-> <<message, IF d1Error = "undefined" THEN "Unknown error" ELSE d1Error>>,
     sql |-> sql, d1Error |-> d1Error]

Returns(value) == [ok |-> TRUE, value |-> value, error |-> NoError]
Throws(error) == [ok |-> FALSE, value |-> <<>>, error |-> error]

query(sql, params, outcome) ==
    IF outcome.kind = "rejects" THEN Throws(EngineError(outcome))
    ELSE IF ~outcome.success THEN Throws(D1Error("Query failed", sql, outcome.error))
    ELSE Returns(<<>>)

queryOne(sql, params, outcome) ==
    IF outcome.kind = "rejects" THEN Throws(EngineError(outcome))
    ELSE Returns(<<>>)

execute(sql, params, outcome) ==
    IF outcome.kind = "rejects" THEN Throws(EngineError(outcome))
    ELSE IF ~outcome.success THEN Throws(D1Error("Execute failed", sql, outcome.error))
    ELSE Returns(<<>>)

batch(statements, outcome) ==
    IF outcome.kind = "rejects" THEN Throws(EngineError(outcome))
    ELSE Returns([i \in 1..Len(statements) |-> [success |-> TRUE]])

\* db.batch on the statements of a builder: a statement the engine cannot
\* parse rejects the batch, and so can any failure of the engine itself
BatchOutcomes(statements) ==
    IF \E i \in 1..Len(statements) : statements[i].sql = "bad"
    THEN {o \in PlainOutcomes : o.kind = "rejects"}
    ELSE PlainOutcomes

\* D1TransactionBuilder
add(statements, sql, params, n) ==
    Append(statements, [sql |-> sql, params |-> params, n |-> n])

rollback_Keep(statements) == statements

rollback(statements) == <<>>

\* called: whether commit() reached adapter.batch
commit(statements, outcome) ==
    IF Len(statements) = 0
    THEN [called |-> FALSE, res |-> Returns(<<>>)]
    ELSE [called |-> TRUE, res |-> batch(statements, outcome)]

StatementInputs == {"ok", "bad"}
SqlInputs == {"SELECT 1", "SELEC 1"}

TxAdd ==
    /\ ret.op = "none"
    /\ Len(tx.hist) < MaxOps
    /\ \E sql \in StatementInputs :
          /\ tx' = [tx EXCEPT !.statements = add(@, sql, <<>>, tx.n + 1),
                              !.n = @ + 1,
                              !.hist = Append(@, [op |-> "add", n |-> tx.n + 1,
                                                  ok |-> TRUE])]
          /\ ret' = [NoRet EXCEPT !.op = "add"]
    /\ UNCHANGED <<db, now, removed, born, trav, cell, conc>>

TxCommit ==
    /\ ret.op = "none"
    /\ Len(tx.hist) < MaxOps
    /\ \E outcome \in BatchOutcomes(tx.statements) :
          \E c \in {commit(tx.statements, outcome)} :
             /\ tx' = [tx EXCEPT
                         !.calls = IF c.called THEN Append(@, tx.statements) ELSE @,
                         !.applied = IF c.called /\ c.res.ok
                                     THEN @ \o tx.statements ELSE @,
                         !.hist = Append(@, [op |-> "commit", n |-> 0,
                                             ok |-> c.res.ok])]
             /\ ret' = [NoRet EXCEPT !.op = "commit", !.ok = c.res.ok,
                                     !.rows = c.res.value, !.flag = c.called,
                                     !.error = c.res.error,
                                     !.cause = IF c.res.ok THEN "none" ELSE outcome.error]
    /\ UNCHANGED <<db, now, removed, born, trav, cell, conc>>

TxRollback ==
    /\ ret.op = "none"
    /\ Len(tx.hist) < MaxOps
    /\ tx' = [tx EXCEPT !.statements = rollback(@),
                        !.hist = Append(@, [op |-> "rollback", n |-> 0, ok |-> TRUE])]
    /\ ret' = [NoRet EXCEPT !.op = "rollback"]
    /\ UNCHANGED <<db, now, removed, born, trav, cell, conc>>

AdapterRet(op, res, outcome) ==
    [NoRet EXCEPT !.op = op, !.ok = res.ok, !.rows = res.value,
                  !.error = res.error,
                  !.cause = IF res.ok THEN "none" ELSE outcome.error]

AdapterQuery ==
    /\ ret.op = "none"
    /\ \E sql \in SqlInputs, outcome \in ResultOutcomes :
          ret' = AdapterRet("query", query(sql, <<>>, outcome), outcome)
    /\ UNCHANGED <<db, now, removed, born, trav, tx, cell, conc>>

AdapterQueryOne ==
    /\ ret.op = "none"
    /\ \E sql \in SqlInputs, outcome \in PlainOutcomes :
          ret' = AdapterRet("queryOne", queryOne(sql, <<>>, outcome), outcome)
    /\ UNCHANGED <<db, now, removed, born, trav, tx, cell, conc>>

AdapterExecute ==
    /\ ret.op = "none"
    /\ \E sql \in SqlInputs, outcome \in ResultOutcomes :
          ret' = AdapterRet("execute", execute(sql, <<>>, outcome), outcome)
    /\ UNCHANGED <<db, now, removed, born, trav, tx, cell, conc>>

AdapterBatch ==
    /\ ret.op = "none"
    /\ \E sql \in SqlInputs, outcome \in PlainOutcomes :
          ret' = AdapterRet("batch",
                            batch(<<[sql |-> sql, params |-> <<>>, n |-> 0]>>, outcome),
                            outcome)
    /\ UNCHANGED <<db, now, removed, born, trav, tx, cell, conc>>

AdapterNext ==
    \/ TxAdd
    \/ TxCommit
    \/ TxRollback
    \/ AdapterQuery
    \/ AdapterQueryOne
    \/ AdapterExecute
    \/ AdapterBatch
    \/ Return

AdapterSpec == Init /\ [][AdapterNext]_vars

\* What the calls recorded in hist should have made of the builder: the
\* statements pending, the batches submitted, the statements the engine
\* committed, and the statements a rollback discarded before any commit.
RECURSIVE Replay(_, _, _)
Replay(hist, i, acc) ==
    IF i > Len(hist) THEN acc
    ELSE LET h == hist[i]
             ns == {acc.pending[k] : k \in 1..Len(acc.pending)}
         IN Replay(hist, i + 1,
              CASE h.op = "add" ->
                     [acc EXCEPT !.pending = Append(@, h.n)]
                [] h.op = "rollback" ->
                     [acc EXCEPT !.pending = <<>>,
                                 !.discarded = @ \cup (ns \ acc.submitted)]
                [] OTHER ->
                     IF acc.pending = <<>> THEN acc
                     ELSE [acc EXCEPT !.calls = Append(@, acc.pending),
                                      !.submitted = @ \cup ns,
                                      !.applied = IF h.ok THEN @ \o acc.pending ELSE @])

Replayed(hist) ==
    Replay(hist, 1, [pending |-> <<>>, calls |-> <<>>, applied |-> <<>>,
                     submitted |-> {}, discarded |-> {}])

Numbers(statements) == [k \in 1..Len(statements) |-> statements[k].n]

\* C15: every commit() submits the statements added to the builder and not
\* discarded, in insertion order, as one batch call that the engine applies
\* whole or not at all; a statement that rollback() discarded before any
\* commit is in no batch; commit() on an empty builder makes no storage call
\* and returns the empty list.
C15_BatchBuilder ==
    LET e == Replayed(tx.hist)
        before == Replayed(SubSeq(tx.hist, 1, Len(tx.hist) - 1))
    IN /\ [i \in 1..Len(tx.calls) |-> Numbers(tx.calls[i])] = e.calls
       /\ Numbers(tx.applied) = e.applied
       /\ \A i \in 1..Len(tx.calls) : \A k \in 1..Len(tx.calls[i]) :
             tx.calls[i][k].n \notin e.discarded
       /\ (ret.op = "commit" /\ before.pending = <<>>) =>
             /\ ~ret.flag
             /\ ret.ok
             /\ ret.rows = <<>>
             /\ e.calls = before.calls

\* a commit after an add, a rollback and a second add: one batch, the
\* second statement alone
C15_Witness ==
    /\ ret.op = "commit"
    /\ Replayed(tx.hist).discarded # {}
    /\ Len(tx.calls) = 1
    /\ Len(tx.calls[1]) = 1

\* commit() on a builder that holds nothing
C15_WitnessEmpty ==
    /\ ret.op = "commit"
    /\ ~ret.flag
    /\ Len(tx.hist) > 1


AdapterCalls == {"query", "queryOne", "execute", "batch"}

FailedAdapterCall == ret.op \in AdapterCalls /\ ~ret.ok

\* C16: every failed call of query, queryOne, execute or batch raises the
\* typed storage error (D1Error), and the error tells which of timeout,
\* statement syntax and result too large made the call fail.
C16_TypedStorageError ==
    FailedAdapterCall =>
        /\ ret.error.name = "D1Error"
        /\ ret.error.d1Error \in EngineFailures
        /\ ret.error.d1Error = ret.cause


----------------------------------------------------------------------------
\* an after cursor that is not base64 text, or whose decoded text is not JSON
Undecodable(cursor) == cursor # Absent /\ cursor[1].kind \in {"notjson", "notb64"}

\* C17: a read-many call whose after cursor cannot be decoded ends in an
\* error and returns no page.
C17_InvalidCursorRejected ==
    (ret.op = "select" /\ Undecodable(ret.pg.after)) => ~ret.ok


----------------------------------------------------------------------------
(* The value transformers (database/typeorm/d1/transformers)                *)
(*                                                                          *)
(* A JavaScript value is a record: t is its type tag, n its number (the     *)
(* number itself, 1/0 of a boolean, the instant of a Date), s the           *)
(* characters of a string, items the elements of an array or the member     *)
(* values of an object, keys the member names of an object.  A primitive    *)
(* read from or written to a column is such a value too: null, a string     *)
(* or a number.  Raised stands for a call that threw.                       *)

JsVal(t, n, s, items, keys) ==
    [t |-> t, n |-> n, s |-> s, items |-> items, keys |-> keys]

Null == JsVal("null", 0, <<>>, <<>>, <<>>)
Undef == JsVal("undefined", 0, <<>>, <<>>, <<>>)
Bool(b) == JsVal("bool", IF b THEN 1 ELSE 0, <<>>, <<>>, <<>>)
Num(n) == JsVal("num", n, <<>>, <<>>, <<>>)
NaN == JsVal("nan", 0, <<>>, <<>>, <<>>)
Str(s) == JsVal("str", 0, s, <<>>, <<>>)
Arr(items) == JsVal("arr", 0, <<>>, items, <<>>)
Obj(keys, items) == JsVal("obj", 0, <<>>, items, keys)
DateOf(t) == JsVal("date", t, <<>>, <<>>, <<>>)
InvalidDate == JsVal("baddate", 0, <<>>, <<>>, <<>>)
Cyclic == JsVal("cyclic", 0, <<>>, <<>>, <<>>)      \* an object that holds itself
Raised == JsVal("raised", 0, <<>>, <<>>, <<>>)

Digits == <<"0", "1", "2", "3", "4", "5", "6", "7", "8", "9">>
DigitSet == {Digits[k] : k \in 1..10}
DigitValue(c) == CHOOSE d \in 0..9 : Digits[d + 1] = c

RECURSIVE NumberText(_)
NumberText(n) ==
    IF n < 10 THEN <<Digits[n + 1]>>
    ELSE Append(NumberText(n \div 10), Digits[(n % 10) + 1])

NullChars == <<"n", "u", "l", "l">>
TrueChars == <<"t", "r", "u", "e">>
FalseChars == <<"f", "a", "l", "s", "e">>

\* Date.prototype.toISOString of the instants of the model, the years 2020 +
\* t: "202t-01-01T00:00:00.000Z" is written 2 0 2 t T Z
toISOString(t) == <<"2", "0", "2", Digits[t + 1], "T", "Z">>

\* new Date(text).getTime(): the ISO form and the year-only form "202t" are
\* dates, every other text of the model is not (-1 stands for NaN)
DateParse(text) ==
    IF Len(text) = 6 /\ SubSeq(text, 1, 3) = <<"2", "0", "2">>
       /\ text[4] \in DigitSet /\ SubSeq(text, 5, 6) = <<"T", "Z">>
    THEN DigitValue(text[4])
    ELSE IF Len(text) = 4 /\ SubSeq(text, 1, 3) = <<"2", "0", "2">>
            /\ text[4] \in DigitSet
    THEN DigitValue(text[4])
    ELSE -1

RECURSIVE Quote(_, _)
Quote(s, i) ==
    IF i > Len(s) THEN <<"\"">>
    ELSE IF s[i] \in {"\"", "\\"} THEN <<"\\", s[i]>> \o Quote(s, i + 1)
    ELSE <<s[i]>> \o Quote(s, i + 1)

RECURSIVE HasCycle(_)
HasCycle(v) ==
    \/ v.t = "cyclic"
    \/ \E k \in 1..Len(v.items) : HasCycle(v.items[k])

\* the JSON text of a value that holds no cycle, as JSON.stringify writes it
\* inside an array or at the top
RECURSIVE JsonText(_), JoinItems(_, _), JoinMembers(_, _, _, _)
JsonText(v) ==
    CASE v.t = "bool" -> IF v.n = 1 THEN TrueChars ELSE FalseChars
      [] v.t = "num" -> NumberText(v.n)
      [] v.t = "str" -> <<"\"">> \o Quote(v.s, 1)
      [] v.t = "date" -> <<"\"">> \o Quote(toISOString(v.n), 1)
      [] v.t = "arr" -> <<"[">> \o JoinItems(v.items, 1) \o <<"]">>
      [] v.t = "obj" -> <<"{">> \o JoinMembers(v.keys, v.items, 1, TRUE) \o <<"}">>
      [] OTHER -> NullChars      \* null, undefined, NaN, an invalid Date

JoinItems(items, i) ==
    IF i > Len(items) THEN <<>>
    ELSE (IF i > 1 THEN <<",">> ELSE <<>>) \o JsonText(items[i])
         \o JoinItems(items, i + 1)

JoinMembers(keys, items, i, first) ==
    IF i > Len(items) THEN <<>>
    ELSE IF items[i].t = "undefined" THEN JoinMembers(keys, items, i + 1, first)
    ELSE (IF first THEN <<>> ELSE <<",">>)
         \o <<"\"">> \o Quote(keys[i], 1) \o <<":">> \o JsonText(items[i])
         \o JoinMembers(keys, items, i + 1, FALSE)

\* JSON.stringify: throws on a cycle, gives undefined for undefined
JSONstringify(v) ==
    IF HasCycle(v) THEN Raised
    ELSE IF v.t = "undefined" THEN Undef
    ELSE Str(JsonText(v))

ParseFail == [ok |-> FALSE, v |-> Null, next |-> 0]
Parsed(v, next) == [ok |-> TRUE, v |-> v, next |-> next]

StartsAt(s, i, word) ==
    i + Len(word) - 1 <= Len(s) /\ SubSeq(s, i, i + Len(word) - 1) = word

RECURSIVE ParseValue(_, _), ParseNumber(_, _, _), ParseString(_, _, _),
          ParseItems(_, _, _), ParseMembers(_, _, _, _)
ParseValue(s, i) ==
    IF i > Len(s) THEN ParseFail
    ELSE CASE s[i] = "n" -> IF StartsAt(s, i, NullChars) THEN Parsed(Null, i + 4)
                            ELSE ParseFail
           [] s[i] = "t" -> IF StartsAt(s, i, TrueChars) THEN Parsed(Bool(TRUE), i + 4)
                            ELSE ParseFail
           [] s[i] = "f" -> IF StartsAt(s, i, FalseChars) THEN Parsed(Bool(FALSE), i + 5)
                            ELSE ParseFail
           [] s[i] = "0" -> IF i < Len(s) /\ s[i + 1] \in DigitSet THEN ParseFail
                            ELSE Parsed(Num(0), i + 1)
           [] s[i] \in DigitSet \ {"0"} -> ParseNumber(s, i + 1, DigitValue(s[i]))
           [] s[i] = "\"" -> ParseString(s, i + 1, <<>>)
           [] s[i] = "[" -> IF i < Len(s) /\ s[i + 1] = "]" THEN Parsed(Arr(<<>>), i + 2)
                            ELSE ParseItems(s, i + 1, <<>>)
           [] s[i] = "{" -> IF i < Len(s) /\ s[i + 1] = "}"
                            THEN Parsed(Obj(<<>>, <<>>), i + 2)
                            ELSE ParseMembers(s, i + 1, <<>>, <<>>)
           [] OTHER -> ParseFail

ParseNumber(s, i, acc) ==
    IF i <= Len(s) /\ s[i] \in DigitSet
    THEN ParseNumber(s, i + 1, 10 * acc + DigitValue(s[i]))
    ELSE Parsed(Num(acc), i)

ParseString(s, i, acc) ==
    IF i > Len(s) THEN ParseFail
    ELSE IF s[i] = "\"" THEN Parsed(Str(acc), i + 1)
    ELSE IF s[i] = "\\"
    THEN IF i < Len(s) /\ s[i + 1] \in {"\"", "\\"}
         THEN ParseString(s, i + 2, Append(acc, s[i + 1]))
         ELSE ParseFail
    ELSE ParseString(s, i + 1, Append(acc, s[i]))

ParseItems(s, i, acc) ==
    LET r == ParseValue(s, i)
    IN IF ~r.ok \/ r.next > Len(s) THEN ParseFail
       ELSE IF s[r.next] = "," THEN ParseItems(s, r.next + 1, Append(acc, r.v))
       ELSE IF s[r.next] = "]" THEN Parsed(Arr(Append(acc, r.v)), r.next + 1)
       ELSE ParseFail

ParseMembers(s, i, keys, items) ==
    IF i > Len(s) \/ s[i] # "\"" THEN ParseFail
    ELSE LET k == ParseString(s, i + 1, <<>>)
         IN IF ~k.ok \/ k.next > Len(s) \/ s[k.next] # ":" THEN ParseFail
            ELSE LET r == ParseValue(s, k.next + 1)
                 IN IF ~r.ok \/ r.next > Len(s) THEN ParseFail
                    ELSE IF s[r.next] = ","
                    THEN ParseMembers(s, r.next + 1, Append(keys, k.v.s),
                                      Append(items, r.v))
                    ELSE IF s[r.next] = "}"
                    THEN Parsed(Obj(Append(keys, k.v.s), Append(items, r.v)),
                                r.next + 1)
                    ELSE ParseFail

\* String(x), the text JSON.parse and new Date read from a value
ToText(x) == IF x.t = "str" THEN x.s ELSE JsonText(x)

\* JSON.parse: the value of the whole text, or a SyntaxError
JSONparse(x) ==
    LET r == ParseValue(ToText(x), 1)
    IN IF r.ok /\ r.next = Len(ToText(x)) + 1 THEN r.v ELSE Raised

\* new Date(value) of a string
NewDate(x) ==
    LET t == DateParse(ToText(x))
    IN IF t < 0 THEN InvalidDate ELSE DateOf(t)

Nullish(v) == v.t \in {"null", "undefined"}

Truthy(v) ==
    CASE v.t \in {"null", "undefined", "nan"} -> FALSE
      [] v.t \in {"bool", "num"} -> v.n # 0
      [] v.t = "str" -> v.s # <<>>
      [] OTHER -> TRUE

\* Array.prototype.filter((v) => typeof v === 'string')
RECURSIVE StringsOf(_, _)
StringsOf(items, i) ==
    IF i > Len(items) THEN <<>>
    ELSE (IF items[i].t = "str" THEN <<items[i]>> ELSE <<>>) \o StringsOf(items, i + 1)

jsonTransformer_to(value) ==
    IF Nullish(value) THEN Null
    ELSE IF JSONstringify(value) = Raised THEN Null
    ELSE JSONstringify(value)

jsonTransformer_from(value) ==
    IF Nullish(value) THEN Null
    ELSE IF JSONparse(value) = Raised THEN Null
    ELSE JSONparse(value)

arrayTransformer_to(value) ==
    IF Nullish(value) THEN Null
    ELSE IF value.t # "arr" THEN JSONstringify(Arr(<<value>>))
    ELSE IF JSONstringify(value) = Raised THEN Null
    ELSE JSONstringify(value)

arrayTransformer_from(value) ==
    IF Nullish(value) THEN Arr(<<>>)
    ELSE IF JSONparse(value) = Raised THEN Arr(<<>>)
    ELSE IF JSONparse(value).t # "arr" THEN Arr(<<JSONparse(value)>>)
    ELSE JSONparse(value)

createTypedArrayTransformer_to(value) ==
    IF Nullish(value) THEN Null
    ELSE IF JSONstringify(value) = Raised THEN Null
    ELSE JSONstringify(value)

createTypedArrayTransformer_from(value) ==
    IF Nullish(value) THEN Arr(<<>>)
    ELSE IF JSONparse(value) = Raised THEN Arr(<<>>)
    ELSE IF JSONparse(value).t = "arr" THEN JSONparse(value)
    ELSE Arr(<<>>)

stringArrayTransformer_to(value) ==
    IF Nullish(value) THEN Null
    ELSE IF value.t # "arr" THEN Raised       \* value.filter is not a function
    ELSE JSONstringify(Arr(StringsOf(value.items, 1)))

stringArrayTransformer_from(value) ==
    IF Nullish(value) THEN Arr(<<>>)
    ELSE IF JSONparse(value) = Raised THEN Arr(<<>>)
    ELSE IF JSONparse(value).t = "arr" THEN Arr(StringsOf(JSONparse(value).items, 1))
    ELSE Arr(<<>>)

timestampTransformer_to(value) ==
    IF Nullish(value) THEN Null
    ELSE IF value.t = "date" THEN Str(toISOString(value.n))
    ELSE IF value.t = "baddate" THEN Raised   \* toISOString: RangeError
    ELSE IF value.t = "str"
    THEN IF NewDate(value) = InvalidDate THEN value
         ELSE Str(toISOString(NewDate(value).n))
    ELSE Null

timestampTransformer_from(value) ==
    IF Nullish(value) THEN Null
    ELSE IF NewDate(value) = InvalidDate THEN Null
    ELSE NewDate(value)

timestampWithDefaultTransformer_to(value, clock) ==
    IF Nullish(value) THEN Str(toISOString(clock))
    ELSE IF value.t = "date" THEN Str(toISOString(value.n))
    ELSE IF value.t = "baddate" THEN Raised
    ELSE value

timestampWithDefaultTransformer_from(value) ==
    IF Nullish(value) THEN Null
    ELSE NewDate(value)

toLowerCase(s) ==
    [k \in 1..Len(s) |->
        CASE s[k] = "T" -> "t" [] s[k] = "R" -> "r" [] s[k] = "U" -> "u"
          [] s[k] = "E" -> "e" [] OTHER -> s[k]]

booleanTransformer_to(value) ==
    IF Nullish(value) THEN Null
    ELSE IF Truthy(value) THEN Num(1) ELSE Num(0)

booleanTransformer_from(value) ==
    IF Nullish(value) THEN Null
    ELSE IF value.t = "num" THEN Bool(value.n = 1)
    ELSE IF value.t = "str"
    THEN Bool(value.s = <<"1">> \/ toLowerCase(value.s) = TrueChars)
    ELSE Bool(Truthy(value))

Transformers ==
    {"json", "array", "typedArray", "stringArray", "timestamp",
     "timestampWithDefault", "boolean"}

To(tr, value, clock) ==
    CASE tr = "json" -> jsonTransformer_to(value)
      [] tr = "array" -> arrayTransformer_to(value)
      [] tr = "typedArray" -> createTypedArrayTransformer_to(value)
      [] tr = "stringArray" -> stringArrayTransformer_to(value)
      [] tr = "timestamp" -> timestampTransformer_to(value)
      [] tr = "timestampWithDefault" -> timestampWithDefaultTransformer_to(value, clock)
      [] OTHER -> booleanTransformer_to(value)

From(tr, value) ==
    CASE tr = "json" -> jsonTransformer_from(value)
      [] tr = "array" -> arrayTransformer_from(value)
      [] tr = "typedArray" -> createTypedArrayTransformer_from(value)
      [] tr = "stringArray" -> stringArrayTransformer_from(value)
      [] tr = "timestamp" -> timestampTransformer_from(value)
      [] tr = "timestampWithDefault" -> timestampWithDefaultTransformer_from(value)
      [] OTHER -> booleanTransformer_from(value)


\* The values handed to a transformer's to()
ScalarInputs ==
    {Null, Undef, Bool(TRUE), Bool(FALSE), Num(0), Num(1), Num(12), NaN,
     Str(<<>>), Str(<<"a">>), Str(<<"\"">>), Str(<<"1">>), Str(<<"T", "r", "u", "e">>),
     InvalidDate, Cyclic}
    \cup {DateOf(t) : t \in 0..MaxInstant}
    \cup {Str(toISOString(t)) : t \in 0..MaxInstant}
    \cup {Str(SubSeq(toISOString(t), 1, 4)) : t \in 0..MaxInstant}

ValueInputs ==
    ScalarInputs
    \cup {Arr(<<>>), Obj(<<>>, <<>>), Arr(<<Arr(<<>>)>>),
          Arr(<<Num(1), Str(<<"a">>)>>), Arr(<<Str(<<"a">>), Str(<<>>)>>),
          Obj(<< <<"a">>, <<"b">> >>, <<Num(1), Undef>>)}
    \cup {Arr(<<x>>) : x \in ScalarInputs}
    \cup {Obj(<< <<"a">> >>, <<x>>) : x \in ScalarInputs}

\* Stored text that JSON.parse rejects, and stored text that is no date
MalformedJson == {<<>>, <<"x">>, <<"{">>, <<"[", "1">>, <<"\"", "a">>, <<"n", "u", "l">>,
                  <<"0", "1">>, <<"[", "1", "]", "]">>}
MalformedDate == {<<>>, <<"x">>, <<"T", "Z">>}

MalformedTexts(tr) ==
    CASE tr \in {"json", "array", "typedArray", "stringArray"} -> MalformedJson
      [] tr \in {"timestamp", "timestampWithDefault"} -> MalformedDate
      [] OTHER -> {}

\* a value is written to the column through the transformer's to()
ColumnWrite ==
    /\ cell.step = "new"
    /\ \E tr \in Transformers, value \in ValueInputs :
          cell' = [step |-> "stored", tr |-> tr, malformed |-> FALSE,
                   value |-> value, stored |-> To(tr, value, now),
                   loaded |-> Undef, restored |-> Undef]
    /\ UNCHANGED <<db, now, removed, born, ret, trav, tx, conc>>

\* the column holds text that no to() wrote
ColumnCorrupt ==
    /\ cell.step = "new"
    /\ \E tr \in Transformers : \E text \in MalformedTexts(tr) :
          cell' = [step |-> "stored", tr |-> tr, malformed |-> TRUE,
                   value |-> Undef, stored |-> Str(text),
                   loaded |-> Undef, restored |-> Undef]
    /\ UNCHANGED <<db, now, removed, born, ret, trav, tx, conc>>

\* the column is read through from()
ColumnRead ==
    /\ cell.step = "stored"
    /\ cell.stored # Raised
    /\ cell' = [cell EXCEPT !.step = "loaded", !.loaded = From(cell.tr, cell.stored)]
    /\ UNCHANGED <<db, now, removed, born, ret, trav, tx, conc>>

\* the value read is written back through to()
ColumnRewrite ==
    /\ cell.step = "loaded"
    /\ cell.loaded # Raised
    /\ cell' = [cell EXCEPT !.step = "restored",
                            !.restored = To(cell.tr, cell.loaded, now)]
    /\ UNCHANGED <<db, now, removed, born, ret, trav, tx, conc>>

TransformNext ==
    \/ Tick
    \/ ColumnWrite
    \/ ColumnCorrupt
    \/ ColumnRead
    \/ ColumnRewrite

TransformSpec == Init /\ [][TransformNext]_vars

\* the four transformers of the contract
ContractTransformers == {"json", "array", "timestamp", "boolean"}

\* C18: for the document, list, timestamp and boolean transformer, a
\* primitive x written by to(), null included, is written again unchanged
\* when the value read from it is written back: to(from(x)) = x.
C18_StorageRoundTrip ==
    (cell.step = "restored" /\ ~cell.malformed /\ cell.tr \in ContractTransformers)
        => cell.restored = cell.stored

\* the values of a transformer's declared parameter type that are well formed
RECURSIVE IsJson(_)
IsJson(v) ==
    /\ v.t \in {"null", "bool", "num", "str", "arr", "obj"}
    /\ \A k \in 1..Len(v.items) : IsJson(v.items[k])

Accepted(tr, v) ==
    CASE tr = "json" -> IsJson(v)
      [] tr = "array" -> v = Null \/ (v.t = "arr" /\ IsJson(v))
      [] tr = "timestamp" ->
            v = Null \/ v.t = "date" \/ (v.t = "str" /\ DateParse(v.s) >= 0)
      [] OTHER -> v.t \in {"null", "undefined", "bool"}

\* equivalence of values: a timestamp by its instant, undefined as null
Norm(tr, v) ==
    IF v = Undef THEN Null
    ELSE IF tr = "timestamp" /\ v.t = "str" THEN NewDate(v)
    ELSE v

\* C19: for the document, list, timestamp and boolean transformer and every
\* accepted value v, null and empty ones included, from(to(v)) is
\* equivalent to v.
C19_ValueRoundTrip ==
    (/\ cell.step \in {"loaded", "restored"}
     /\ ~cell.malformed
     /\ cell.tr \in ContractTransformers
     /\ Accepted(cell.tr, cell.value))
        => Norm(cell.tr, cell.loaded) = Norm(cell.tr, cell.value)

SafeDefault(tr) ==
    IF tr \in {"array", "typedArray", "stringArray"} THEN Arr(<<>>) ELSE Null

\* C20: from() of stored text that is no valid encoding does not raise and
\* returns the safe default: null for a document, the empty list for a
\* list, null for a timestamp.
C20_MalformedRecovered ==
    (cell.malformed /\ cell.step = "loaded") => cell.loaded = SafeDefault(cell.tr)

\* the same for every transformer but timestampWithDefaultTransformer
C20_MalformedRecoveredElsewhere ==
    (cell.malformed /\ cell.step = "loaded" /\ cell.tr # "timestampWithDefault")
        => cell.loaded = SafeDefault(cell.tr)

\* the two round-trip laws without the null list, on accepted values
C18_ExceptNullList ==
    (/\ cell.step = "restored" /\ ~cell.malformed
     /\ cell.tr \in ContractTransformers
     /\ Accepted(cell.tr, cell.value)
     /\ ~(cell.tr = "array" /\ cell.value = Null))
        => cell.restored = cell.stored

C19_ExceptNullList ==
    (/\ cell.step \in {"loaded", "restored"} /\ ~cell.malformed
     /\ cell.tr \in ContractTransformers
     /\ Accepted(cell.tr, cell.value)
     /\ ~(cell.tr = "array" /\ cell.value = Null))
        => Norm(cell.tr, cell.loaded) = Norm(cell.tr, cell.value)


----------------------------------------------------------------------------
(* Scoping of TypeORM find options (workspace-scoping utility)              *)
(*                                                                          *)
(* A where is absent, one object of field conditions, or an array of such   *)
(* objects (alternatives).  It is written [kind, alts]: kind "absent",     *)
(* "object" (alts has one element) or "array".                              *)

Where(kind, alts) == [kind |-> kind, alts |-> alts]

\* where arrays of up to MaxAlts alternatives, by their indices in DataInputs
RECURSIVE AltLists(_)
AltLists(n) ==
    IF n = 0 THEN {<<>>}
    ELSE AltLists(n - 1)
         \cup {Append(l, d) : l \in {x \in AltLists(n - 1) : Len(x) = n - 1},
                              d \in 1..Len(DataInputs)}

WhereInputs ==
    {Where("absent", <<>>)}
    \cup {Where("object", <<d>>) : d \in 1..Len(DataInputs)}
    \cup {Where("array", l) : l \in AltLists(MaxAlts)}

WhereOf(w) == Where(w.kind, [i \in 1..Len(w.alts) |-> DataInputs[w.alts[i]]])

addWorkspaceScopeToWhere_CallerWins(where, workspaceId, d1) ==
    IF ~d1 THEN (IF where.kind = "absent" THEN Where("object", <<EmptyData>>) ELSE where)
    ELSE IF where.kind = "absent"
    THEN Where("object", <<[workspaceId |-> workspaceId]>>)
    ELSE Where(where.kind, [i \in 1..Len(where.alts) |->
                               Merge([workspaceId |-> workspaceId], where.alts[i])])

addWorkspaceScopeToWhere(where, workspaceId, d1) ==
    IF ~d1 THEN (IF where.kind = "absent" THEN Where("object", <<EmptyData>>) ELSE where)
    ELSE IF where.kind = "absent"
    THEN Where("object", <<[workspaceId |-> workspaceId]>>)
    ELSE Where(where.kind, [i \in 1..Len(where.alts) |->
                               Merge(where.alts[i], [workspaceId |-> workspaceId])])

\* options: [given, where]; the other find options are copied as they are
addWorkspaceScope(options, workspaceId, d1) ==
    IF ~d1 THEN [given |-> TRUE, where |-> options.where]
    ELSE IF options.where.kind = "absent"
    THEN [given |-> TRUE, where |-> Where("object", <<[workspaceId |-> workspaceId]>>)]
    ELSE [given |-> TRUE,
          where |-> Where(options.where.kind,
                          [i \in 1..Len(options.where.alts) |->
                              Merge(options.where.alts[i], [workspaceId |-> workspaceId])])]

ScopeWhere ==
    /\ Idle
    /\ \E ws \in Tenants, w \in WhereInputs, d1 \in BOOLEAN :
          ret' = [NoRet EXCEPT !.op = "scopeWhere", !.ws = ws, !.d1 = d1, !.pg = w,
                               !.where = addWorkspaceScopeToWhere(WhereOf(w), ws, d1)]
    /\ UNCHANGED <<db, now, removed, born, trav, tx, cell, conc>>

ScopeOptions ==
    /\ Idle
    /\ \E ws \in Tenants, w \in WhereInputs, d1 \in BOOLEAN, given \in BOOLEAN :
          /\ ~given => w.kind = "absent"
          /\ ret' = [NoRet EXCEPT
                       !.op = "scopeOptions", !.ws = ws, !.d1 = d1, !.pg = w,
                       !.flag = given,
                       !.where = addWorkspaceScope([given |-> given, where |-> WhereOf(w)],
                                                   ws, d1).where]
    /\ UNCHANGED <<db, now, removed, born, trav, tx, cell, conc>>

ScopeNext ==
    \/ ScopeWhere
    \/ ScopeOptions
    \/ ScopeEntity
    \/ Return

ScopeSpec == Init /\ [][ScopeNext]_vars

ScopeOps == {"scopeWhere", "scopeOptions"}

AllScoped(where, ws) ==
    /\ where.alts # <<>> \/ where.kind = "array"
    /\ \A i \in 1..Len(where.alts) : HasWorkspace(where.alts[i], ws)

\* C21 as stated: the filter that addWorkspaceScope and
\* addWorkspaceScopeToWhere return carries workspaceId = tenant id in every
\* alternative, whatever the caller's where named.
C21_AsStated ==
    ret.op \in ScopeOps => AllScoped(ret.where, ret.ws)

\* C21 amended: in a D1 environment the returned where has the alternatives
\* of the given one, each with its other conditions kept and workspaceId set
\* to the tenant id (an absent where becomes the single condition
\* workspaceId = tenant id); outside a D1 environment the where is returned
\* as it was given.
C21_ScopedInD1 ==
    ret.op \in ScopeOps =>
        LET given == WhereOf(ret.pg)
        IN IF ret.d1
           THEN /\ AllScoped(ret.where, ret.ws)
                /\ Len(ret.where.alts) = IF given.kind = "absent" THEN 1
                                         ELSE Len(given.alts)
                /\ \A i \in 1..Len(given.alts) :
                      \A k \in DOMAIN given.alts[i] \ {"workspaceId"} :
                         /\ k \in DOMAIN ret.where.alts[i]
                         /\ ret.where.alts[i][k] = given.alts[i][k]
           ELSE IF given.kind = "absent"
           THEN \A i \in 1..Len(ret.where.alts) : ret.where.alts[i] = EmptyData
           ELSE ret.where = given

\* a where array whose second alternative names another tenant is scoped
C21_Witness ==
    /\ ret.op = "scopeWhere"
    /\ ret.d1
    /\ ret.ws = "T1"
    /\ ret.pg.kind = "array"
    /\ Len(ret.pg.alts) = 2
    /\ HasWorkspace(WhereOf(ret.pg).alts[2], "T2")
    /\ AllScoped(ret.where, "T1")


----------------------------------------------------------------------------
\* text s contains text q, letter case ignored
Contains(s, q) ==
    \E k \in 0..(Len(s) - Len(q)) :
        \A i \in 1..Len(q) : Lower(s[k + i]) = Lower(q[i])

\* the stored row a search item or a returned record stands for
RowOf(uid) == CHOOSE r \in UNION {db[t] : t \in StoredTables} : r.uid = uid

\* C22: a row that the like filter or keyword search returns for a search
\* text holds that text literally, letter case ignored, in the filtered
\* field or in one of the searchable fields; the characters %, _ and \ of
\* the text are no wildcards.
C22_SearchTextLiteral ==
    /\ ret.op = "like" =>
          \A i \in 1..Len(ret.rows) :
             Contains(ret.rows[i].name, SearchQueries[ret.di])
    /\ ret.op = "search" =>
          \A i \in 1..Len(ret.rows) :
             \E k \in 1..Len(SearchableFields(ret.rows[i].objectName)) :
                LET f == SearchableFields(ret.rows[i].objectName)[k]
                    v == RowOf(ret.rows[i].uid)[f]
                IN ~IsNull(f, v) /\ Contains(v, SearchQueries[ret.di])

\* the part on keyword search alone
C22_KeywordLiteral ==
    ret.op = "search" =>
        \A i \in 1..Len(ret.rows) :
           \E k \in 1..Len(SearchableFields(ret.rows[i].objectName)) :
              LET f == SearchableFields(ret.rows[i].objectName)[k]
                  v == RowOf(ret.rows[i].uid)[f]
              IN ~IsNull(f, v) /\ Contains(v, SearchQueries[ret.di])


\* the part on the like filter alone
C22_LikeLiteral ==
    ret.op = "like" =>
        \A i \in 1..Len(ret.rows) : Contains(ret.rows[i].name, SearchQueries[ret.di])


----------------------------------------------------------------------------
(* Two update-one calls whose statements interleave.  executeUpdate reads   *)
(* the clock, awaits its UPDATE statement and then awaits the re-read by    *)
(* executeSelectOne; the engine runs each statement by itself.              *)

UpdateInputs ==
    << EmptyData,
       [name |-> <<"a">>],
       [name |-> <<"b">>],
       [id |-> 1],
       [workspaceId |-> "T2"] >>

RaceInit ==
    /\ \E o \in SUBSET (1..MaxRows) :
          db = [t \in StoredTables |->
                    IF t = "company" THEN {} ELSE {SeedRow(t, i) : i \in o}]
    /\ now = 1
    /\ removed = {}
    /\ born = 0
    /\ ret = NoRet
    /\ trav = NoTrav
    /\ tx = NoTx
    /\ cell = NoCell
    /\ conc = NoConc

\* const now = new Date().toISOString(); const updates = { ...data, updatedAt: now }
UpdateBegin(p) ==
    /\ conc.proc[p].pc = "idle"
    /\ \E tbl \in Tables, ws \in Tenants, id \in 1..MaxRows, di \in 1..Len(UpdateInputs) :
          conc' = [conc EXCEPT !.proc[p] =
                      [pc |-> "begun", tbl |-> tbl, ws |-> ws, id |-> id, di |-> di,
                       updates |-> Merge(UpdateInputs[di], [updatedAt |-> now]),
                       out |-> <<>>]]
    /\ UNCHANGED <<db, now, removed, born, ret, trav, tx, cell>>

\* await db.prepare(query).bind(...values).run()
UpdateApply(p) ==
    /\ conc.proc[p].pc = "begun"
    /\ \E c \in {conc.proc[p]} :
        \E target \in {ByTenantAndId(db[c.tbl], c.ws, c.id)} :
          \E res \in {DbUpdate(db[c.tbl], target, c.updates)} :
            /\ db' = [db EXCEPT ![c.tbl] = res.rows]
            /\ conc' = [conc EXCEPT
                          !.proc[p].pc = IF res.ok THEN "applied" ELSE "failed",
                          !.log = Append(@, [p |-> p, ok |-> res.ok, before |-> db[c.tbl],
                                             uids |-> {r.uid : r \in target}])]
    /\ UNCHANGED <<now, removed, born, ret, trav, tx, cell>>

\* return executeSelectOne(db, tableName, workspaceId, { id })
UpdateReread(p) ==
    /\ conc.proc[p].pc = "applied"
    /\ \E c \in {conc.proc[p]} :
        \E found \in {executeSelectOne(db[c.tbl], c.ws, <<FLit("id", c.id)>>)} :
          \E out \in IF found = {} THEN {<<>>} ELSE {<<r>> : r \in found} :
            conc' = [conc EXCEPT !.proc[p].pc = "done", !.proc[p].out = out]
    /\ UNCHANGED <<db, now, removed, born, ret, trav, tx, cell>>

RaceNext ==
    \/ Tick
    \/ \E p \in Procs : UpdateBegin(p)
    \/ \E p \in Procs : UpdateApply(p)
    \/ \E p \in Procs : UpdateReread(p)

RaceSpec == RaceInit /\ [][RaceNext]_vars

\* the UPDATE statements applied so far that wrote the row created as uid
WritesOf(uid) == {i \in 1..Len(conc.log) : conc.log[i].ok /\ uid \in conc.log[i].uids}

LastWrite(uid) == CHOOSE i \in WritesOf(uid) : \A j \in WritesOf(uid) : j <= i

\* an UPDATE statement that failed also fails on the table as it was before
\* the first statement of either call
NoInducedFailure ==
    \A i \in 1..Len(conc.log) :
        ~conc.log[i].ok =>
            LET c == conc.proc[conc.log[i].p]
                alone == conc.log[1].before
            IN ~DbUpdate(alone, ByTenantAndId(alone, c.ws, c.id), c.updates).ok

\* every column of a row holds the value of the UPDATE statement applied
\* last among those that wrote the row
LastValueStored ==
    \A r \in UNION {db[t] : t \in Tables} :
        WritesOf(r.uid) # {} =>
            LET u == conc.proc[conc.log[LastWrite(r.uid)].p].updates
            IN \A k \in DOMAIN u : r[k] = u[k]

\* C23: when two update-one calls interleave, neither fails because of the
\* other, and every column written by both holds the value of the UPDATE
\* statement that the engine applied last.
C23_LastWriteWins == NoInducedFailure /\ LastValueStored

\* the same for calls whose data names neither id nor workspaceId
C23_OrdinaryData ==
    (\A p \in Procs : conc.proc[p].pc # "idle" =>
        DOMAIN UpdateInputs[conc.proc[p].di] \subseteq {"name"})
    => C23_LastWriteWins

\* both calls wrote the name of the same row, with different values and at
\* different clock readings, and both have returned
C23_Witness ==
    /\ \A p \in Procs : conc.proc[p].pc = "done"
    /\ Len(conc.log) = 2
    /\ conc.log[1].uids = conc.log[2].uids
    /\ conc.log[1].uids # {}
    /\ conc.log[1].p # conc.log[2].p
    /\ "name" \in DOMAIN conc.proc[1].updates
    /\ "name" \in DOMAIN conc.proc[2].updates
    /\ conc.proc[1].updates.name # conc.proc[2].updates.name
    /\ conc.proc[conc.log[2].p].updates.updatedAt < conc.proc[conc.log[1].p].updates.updatedAt


----------------------------------------------------------------------------
TenantWriteOps == {"update", "softDelete", "hardDelete"}

\* C24: update-one, soft-delete-one and hard-delete-one by tenant T with any
\* id and any data leave every row of another tenant as it was, none
\* modified and none removed, and return no row of another tenant.
C24_TenantIsolationWrites ==
    ret.op \in TenantWriteOps =>
        /\ \A o \in ret.before : o.workspaceId # ret.ws => o \in db[ret.tbl]
        /\ \A i \in 1..Len(ret.rows) : ret.rows[i].workspaceId = ret.ws

\* an update-one that names the id of a live row of the other tenant
C24_Witness ==
    /\ ret.op = "update"
    /\ ret.ok
    /\ DataInputs[ret.di] # EmptyData
    /\ \E o \in ret.before :
          o.id = ret.id /\ o.workspaceId # ret.ws /\ o.deletedAt = NullTime


----------------------------------------------------------------------------
(* The statements the calls send to the engine.  A statement is written    *)
(* [kind, tbl, skip, conds, either, tail, params]: skip placeholders stand  *)
(* before the WHERE (the SET list), conds are the conditions of the WHERE   *)
(* joined by AND, either is a last, parenthesised condition of              *)
(* alternatives joined by OR, tail placeholders follow the WHERE (LIMIT ?). *)

Statement(kind, tbl, skip, conds, either, tail, params) ==
    [kind |-> kind, tbl |-> tbl, skip |-> skip, conds |-> conds, either |-> either,
     tail |-> tail, params |-> params]

\* executeSelect: the page query and the count query, bound to the same values
SelectStatements(tbl, workspaceId, filter, pagination) ==
    LET w == buildWhereClause(filter, workspaceId)
        decoded == decodeCursor(pagination.after[1])
        cursorFilter == <<FNeq("id", IF decoded.hasId THEN decoded.id ELSE Undefined)>>
        cursorParams == buildWhereClause(cursorFilter, workspaceId).params
        params == IF TruthyStr(pagination.after) /\ ~decoded.isNull
                  THEN w.params \o Tail(cursorParams)
                  ELSE w.params
    IN <<Statement("SELECT", tbl, 0, w.conds, <<>>, 0, params),
         Statement("COUNT", tbl, 0, w.conds, <<>>, 0, SubSeq(params, 1, Len(params)))>>

SelectOneStatements(tbl, workspaceId, filter) ==
    LET w == buildWhereClause(filter, workspaceId)
    IN <<Statement("SELECT", tbl, 0, w.conds, <<>>, 0, w.params)>>

\* Object.values(record), in the order of Object.keys(record)
RECURSIVE ValuesOf(_, _)
ValuesOf(record, keys) ==
    IF keys = {} THEN <<>>
    ELSE LET k == CHOOSE x \in keys : TRUE
         IN <<record[k]>> \o ValuesOf(record, keys \ {k})

UpdateStatements(tbl, workspaceId, id, data, t) ==
    LET updates == Merge(data, [updatedAt |-> t])
        values == ValuesOf(updates, DOMAIN updates) \o <<workspaceId, id>>
    IN <<Statement("UPDATE", tbl, Cardinality(DOMAIN updates),
                   <<Cond("workspaceId", "=", 1), Cond("id", "=", 1)>>, <<>>, 0, values)>>
       \o SelectOneStatements(tbl, workspaceId, <<FLit("id", id)>>)

SoftDeleteStatements(tbl, workspaceId, id, t) ==
    <<Statement("UPDATE", tbl, 2,
                <<Cond("workspaceId", "=", 1), Cond("id", "=", 1),
                  Cond("deletedAt", "ISNULL", 0)>>, <<>>, 0, <<t, t, workspaceId, id>>),
      Statement("SELECT", tbl, 0,
                <<Cond("workspaceId", "=", 1), Cond("id", "=", 1)>>, <<>>, 0,
                <<workspaceId, id>>)>>

HardDeleteStatements(tbl, workspaceId, id) ==
    <<Statement("DELETE", tbl, 0,
                <<Cond("workspaceId", "=", 1), Cond("id", "=", 1)>>, <<>>, 0,
                <<workspaceId, id>>)>>

\* createSearchResolver: one statement for each searched object that has
\* searchable fields
RECURSIVE SearchStatements(_, _, _, _)
SearchStatements(objects, workspaceId, searchQuery, limitPerType) ==
    IF objects = <<>> THEN <<>>
    ELSE LET objectName == Head(objects)
             q == buildSearchQuery(objectName, SearchableFields(objectName),
                                   workspaceId, searchQuery, limitPerType)
             later == SearchStatements(Tail(objects), workspaceId, searchQuery, limitPerType)
         IN IF SearchableFields(objectName) = <<>> THEN later
            ELSE <<Statement("SELECT", TableName(objectName), 0, q.conds, q.either, 1,
                             q.params)>> \o later

SendSelect ==
    /\ ret.op = "none"
    /\ \E tbl \in Tables, ws \in Tenants, fi \in 1..Len(FilterInputs),
          first \in PageSizes,
          after \in {Absent} \cup {<<c>> : c \in BadCursors} \cup {<<encodeCursor(1)>>} :
          ret' = [NoRet EXCEPT !.op = "select", !.ws = ws, !.tbl = tbl, !.fi = fi,
                      !.pg = Pg(first, Absent, after, Absent),
                      !.stmts = SelectStatements(tbl, ws, FilterInputs[fi],
                                                 Pg(first, Absent, after, Absent))]
    /\ UNCHANGED <<db, now, removed, born, trav, tx, cell, conc>>

SendSelectOne ==
    /\ ret.op = "none"
    /\ \E tbl \in Tables, ws \in Tenants, fi \in 1..Len(FilterInputs) :
          ret' = [NoRet EXCEPT !.op = "selectOne", !.ws = ws, !.tbl = tbl, !.fi = fi,
                      !.stmts = SelectOneStatements(tbl, ws, FilterInputs[fi])]
    /\ UNCHANGED <<db, now, removed, born, trav, tx, cell, conc>>

SendUpdate ==
    /\ ret.op = "none"
    /\ \E tbl \in Tables, ws \in Tenants, id \in 1..MaxSeed, di \in 1..Len(DataInputs) :
          ret' = [NoRet EXCEPT !.op = "update", !.ws = ws, !.tbl = tbl, !.id = id,
                      !.di = di,
                      !.stmts = UpdateStatements(tbl, ws, id, DataInputs[di], now)]
    /\ UNCHANGED <<db, now, removed, born, trav, tx, cell, conc>>

SendSoftDelete ==
    /\ ret.op = "none"
    /\ \E tbl \in Tables, ws \in Tenants, id \in 1..MaxSeed :
          ret' = [NoRet EXCEPT !.op = "softDelete", !.ws = ws, !.tbl = tbl, !.id = id,
                      !.stmts = SoftDeleteStatements(tbl, ws, id, now)]
    /\ UNCHANGED <<db, now, removed, born, trav, tx, cell, conc>>

SendHardDelete ==
    /\ ret.op = "none"
    /\ \E tbl \in Tables, ws \in Tenants, id \in 1..MaxSeed :
          ret' = [NoRet EXCEPT !.op = "hardDelete", !.ws = ws, !.tbl = tbl, !.id = id,
                      !.stmts = HardDeleteStatements(tbl, ws, id)]
    /\ UNCHANGED <<db, now, removed, born, trav, tx, cell, conc>>

SendSearch ==
    /\ ret.op = "none"
    /\ \E ws \in Tenants, qi \in 2..Len(SearchQueries), limit \in 1..MaxPage :
          ret' = [NoRet EXCEPT !.op = "search", !.ws = ws, !.di = qi,
                      !.limit = <<limit>>,
                      !.stmts = SearchStatements(StandardObjects, ws, SearchQueries[qi],
                                                 Ceil(limit, Len(StandardObjects)))]
    /\ UNCHANGED <<db, now, removed, born, trav, tx, cell, conc>>

StatementNext ==
    \/ SendSelect
    \/ SendSelectOne
    \/ SendUpdate
    \/ SendSoftDelete
    \/ SendHardDelete
    \/ SendSearch
    \/ Return

StatementSpec == SearchInit /\ [][StatementNext]_vars

\* the values bound to the placeholders of the WHERE conditions of a statement
WhereParams(st) == SubSeq(st.params, st.skip + 1, st.skip + Placeholders(st.conds))

\* the rows of its table that the WHERE of a statement is true of
StatementRows(st) ==
    {r \in db[st.tbl] :
        /\ EvalAnd(r, st.conds, WhereParams(st))
        /\ st.either # <<>> =>
              \E i \in 1..Len(st.either) :
                 EvalCond(r, st.either[i],
                          <<st.params[st.skip + Placeholders(st.conds) + i]>>)}

\* C25: in every statement that read-many, read-one, update-one,
\* soft-delete-one, hard-delete-one and keyword search send, the first
\* condition of the WHERE is workspaceId = ?, its placeholder is bound to the
\* caller's tenant id, and the conditions that follow are joined to it by
\* AND, so that the WHERE is true of rows of the caller's tenant only,
\* whatever the filter.
C25_TenantPredicateFirst ==
    \A i \in 1..Len(ret.stmts) :
        LET st == ret.stmts[i]
        IN /\ st.conds[1] = Cond("workspaceId", "=", 1)
           /\ st.params[st.skip + 1] = ret.ws
           /\ \A r \in StatementRows(st) : r.workspaceId = ret.ws

\* a read-many by T1 with the filter { workspaceId: 'T2' } on a table that
\* holds a live row of T2
C25_Witness ==
    /\ ret.op = "select"
    /\ ret.ws = "T1"
    /\ Len(ret.stmts) = 2
    /\ Cond("workspaceId", "=", 1) \in {ret.stmts[1].conds[k] : k \in 2..Len(ret.stmts[1].conds)}
    /\ ret.stmts[1].params[2] = "T2"
    /\ \E r \in db[ret.tbl] : r.workspaceId = "T2" /\ r.deletedAt = NullTime

StatementPlaceholders(st) ==
    st.skip + Placeholders(st.conds) + Placeholders(st.either) + st.tail

\* C27: the values bound to the page query and to the count query of
\* read-many are as many as the placeholders of the statement.
C27_ParamsMatchPlaceholders ==
    ret.op = "select" =>
        \A i \in 1..Len(ret.stmts) :
            Len(ret.stmts[i].params) = StatementPlaceholders(ret.stmts[i])

\* the same for the calls that carry no decodable after cursor
C27_WithoutCursor ==
    (ret.op = "select"
     /\ (ret.pg.after = Absent \/ decodeCursor(ret.pg.after[1]).isNull)) =>
        \A i \in 1..Len(ret.stmts) :
            Len(ret.stmts[i].params) = StatementPlaceholders(ret.stmts[i])


----------------------------------------------------------------------------
\* C26: the ORDER BY clause of read-many ends with "id" ASC for the absent
\* or empty order specification and for every other one, no two rows of a
\* table tie under it, and the rows of a page stand in the strict order of
\* the clause (backwards in a page asked for by `last` alone), so two reads
\* of the same rows return one order.
C26_OrderEndsWithId ==
    /\ \A oi \in 1..Len(OrderInputs) :
          LET terms == buildOrderByClause(OrderInputs[oi])
          IN /\ terms[Len(terms)] = Term("id", "ASC", "FIRST")
             /\ \A tbl \in Tables : \A r, o \in db[tbl] :
                   r # o => RowCmp(r, o, terms) # 0
    /\ buildOrderByClause(<<>>)
          = <<Term("createdAt", "DESC", "LAST"), Term("id", "ASC", "FIRST")>>
    /\ (ret.op = "select" /\ ret.ok) =>
          \A i, j \in 1..Len(ret.rows) :
             i < j => LET c == RowCmp(ret.rows[i], ret.rows[j],
                                      buildOrderByClause(OrderInputs[ret.oi]))
                      IN IF TruthyNum(ret.pg.last) /\ ~TruthyNum(ret.pg.first)
                         THEN c > 0 ELSE c < 0

\* a page ordered by name alone that holds two rows of one name
C26_Witness ==
    /\ ret.op = "select"
    /\ ret.ok
    /\ OrderInputs[ret.oi] = <<OrderSpec("name", "ASC", "")>>
    /\ \E i, j \in 1..Len(ret.rows) :
          i < j /\ ret.rows[i].name = ret.rows[j].name


----------------------------------------------------------------------------
\* C28: the batch builder submits no statement twice: after a commit() that
\* returned the builder holds no pending statement, and no statement is in
\* two batch calls.
C28_NoResubmission ==
    /\ (ret.op = "commit" /\ ret.ok) => tx.statements = <<>>
    /\ \A i, j \in 1..Len(tx.calls) :
          i < j => \A k \in 1..Len(tx.calls[i]), l \in 1..Len(tx.calls[j]) :
                      tx.calls[i][k].n # tx.calls[j][l].n

\* the statements a commit() submitted and the engine applied are submitted
\* again by the next commit(), with no add() in between
C28_Resubmitted ==
    /\ Len(tx.hist) >= 2
    /\ tx.hist[Len(tx.hist)].op = "commit"
    /\ tx.hist[Len(tx.hist) - 1].op = "commit"
    /\ tx.hist[Len(tx.hist) - 1].ok
    /\ Len(tx.calls) >= 2
    /\ tx.calls[Len(tx.calls)] = tx.calls[Len(tx.calls) - 1]


----------------------------------------------------------------------------
\* C30: an update-one that returns null modified no stored row, be the id
\* unknown, the id of a row of another tenant or the id of a soft-deleted
\* row.
C30_NullUpdateWritesNothing ==
    (ret.op = "update" /\ ret.ok /\ ret.rows = <<>>) => db[ret.tbl] = ret.before

\* the same for the calls whose data names no identity column and whose id
\* is not that of a soft-deleted row of the caller
C30_ExceptSoftDeleted ==
    (ret.op = "update" /\ ret.ok /\ ret.rows = <<>>
     /\ DOMAIN DataInputs[ret.di] \cap {"id", "workspaceId"} = {}
     /\ \A o \in ret.before :
           (o.workspaceId = ret.ws /\ o.id = ret.id) => o.deletedAt = NullTime)
        => db[ret.tbl] = ret.before

\* an update-one with { name: 'a' } on a soft-deleted row of the caller
\* returned null and the row is stored with the time of the call
C30_SoftDeletedWritten ==
    /\ ret.op = "update" /\ ret.ok /\ ret.rows = <<>>
    /\ DataInputs[ret.di] = [name |-> <<"a">>]
    /\ \E o \in ret.before :
          /\ o.workspaceId = ret.ws /\ o.id = ret.id /\ o.deletedAt # NullTime
          /\ o.updatedAt < now
          /\ \E r \in db[ret.tbl] : r.uid = o.uid /\ r.updatedAt = now


----------------------------------------------------------------------------
(* Read-many beside other invocations.  executeSelect awaits the page       *)
(* query, then the count query: two statements, each run by the engine on   *)
(* its own, between which the statements of other invocations may run.      *)
(* conc.read is the reading invocation: seen and at are the rows of the     *)
(* table when the page query and when the count query ran.                  *)

ReadInputs == {Pg(Absent, Absent, Absent, Absent), Pg(<<1>>, Absent, Absent, Absent)}

\* const result = await db.prepare(query).bind(...params).all()
ReadPage ==
    /\ conc.read.pc = "idle"
    /\ \E tbl \in Tables, ws \in Tenants, fi \in 1..Len(FilterInputs), pg \in ReadInputs :
          conc' = [conc EXCEPT !.read =
                      [pc |-> "paged", tbl |-> tbl, ws |-> ws, fi |-> fi, pg |-> pg,
                       seen |-> db[tbl]]]
    /\ UNCHANGED <<db, now, removed, born, ret, trav, tx, cell>>

\* const countResult = await db.prepare(countQuery).bind(...).first(); the
\* connection of createFindManyResolver
ReadCount ==
    /\ conc.read.pc = "paged"
    /\ LET rd == conc.read
           where == buildWhereClause(FilterInputs[rd.fi], rd.ws)
           terms == buildOrderByClause(<<>>)
           page == executeSelect(DbOrdered(rd.seen, where, terms), rd.ws,
                                 FilterInputs[rd.fi], rd.pg)
           count == executeSelect(DbOrdered(db[rd.tbl], where, terms), rd.ws,
                                  FilterInputs[rd.fi], rd.pg)
       IN conc' = [conc EXCEPT !.read =
                      [pc |-> "done", tbl |-> rd.tbl, ws |-> rd.ws, fi |-> rd.fi,
                       pg |-> rd.pg, seen |-> rd.seen, at |-> db[rd.tbl],
                       ok |-> page.ok /\ count.ok,
                       edges |-> page.records, totalCount |-> count.totalCount]]
    /\ UNCHANGED <<db, now, removed, born, ret, trav, tx, cell>>

ReadReturn ==
    /\ conc.read.pc = "done"
    /\ conc' = [conc EXCEPT !.read = NoRead]
    /\ UNCHANGED <<db, now, removed, born, ret, trav, tx, cell>>

CountNext ==
    \/ CreateOne
    \/ DeleteOne
    \/ HardDeleteOne
    \/ Return
    \/ ReadPage
    \/ ReadCount
    \/ ReadReturn

CountSpec == Init /\ [][CountNext]_vars

\* C29: in every connection of read-many, totalCount is the number of the
\* rows of the caller's tenant that are not soft-deleted and match the
\* filter, whatever the page size, and it is never smaller than the number
\* of rows in the page, also when other invocations create, soft-delete or
\* hard-delete rows between the page query and the count query.
C29_TotalCountCoversPage ==
    (conc.read.pc = "done" /\ conc.read.ok) =>
        LET rd == conc.read
        IN /\ rd.totalCount
                = Cardinality({r \in rd.at :
                                  /\ r.workspaceId = rd.ws
                                  /\ r.deletedAt = NullTime
                                  /\ EvalAnd(r, FilterConds(FilterInputs[rd.fi]),
                                             FilterParams(FilterInputs[rd.fi]))})
           /\ rd.totalCount >= Len(rd.edges)

\* the same for the reads between whose two queries no row was written
C29_Undisturbed ==
    (conc.read.pc = "done" /\ conc.read.ok /\ conc.read.at = conc.read.seen) =>
        conc.read.totalCount >= Len(conc.read.edges)

\* a connection with a row in its page and a totalCount of 0: the row was
\* hard-deleted or soft-deleted between the two queries
C29_PageOutgrowsCount ==
    /\ conc.read.pc = "done"
    /\ conc.read.ok
    /\ Len(conc.read.edges) = 1
    /\ conc.read.totalCount = 0

============================================================================
